---- MODULE Spec2Model ----
(***************************************************************************)
(* State-machine model of the CodeSnip editor: the document/tab manager    *)
(* (editor/editor.js), the session record and directory access provider    *)
(* (editor/fileSystem.js) and the browse tree (editor/fileTree.js).        *)
(*                                                                         *)
(* Strings (names, paths, file contents, buffers) are sequences of one-     *)
(* character strings.                                                      *)
(* Every await of a platform call is a separate step, so that handlers     *)
(* interleave exactly where the JavaScript event loop lets them.           *)
(***************************************************************************)
EXTENDS Integers, Sequences, FiniteSets, TLC

\* ------------------------------------------------------------------ bounds
\* number of asynchronous handlers (openFile / saveCurrentFile calls) that
\* may be suspended at an await at the same time
MaxPending == 2

\* number of user actions (clicks, keystrokes, reloads) in one behaviour:
\* when handlers run one after another, and when they interleave
MaxSteps == 6
MaxAsyncSteps == 4

\* length of the ignore patterns that ruleMatchesPath is applied to
MaxPatternLen == 3

\* number of user actions in one behaviour of the browse tree
MaxTreeSteps == 4

\* ------------------------------------------------------------ value universe
NULL == "null"

\* null where a handle, a tab id or path, or a session record is expected
NullHandle == [root |-> NULL, segs |-> << >>, kind |-> "none"]
NullStr == <<NULL>>
NoSession == [folderName |-> NullStr, currentFilePath |-> NullStr]

\* entry.children: null, or the list of child entries
NullChildren == [isNull |-> TRUE, items |-> << >>]
ChildList(items) == [isNull |-> FALSE, items |-> items]

\* document texts (EditorState.doc.toString())
Texts == {<< >>, <<"x">>}

\* names and path strings, as character sequences
NameA == <<"a">>
NameB == <<"b">>
NameC == <<"c">>
NameD == <<"d">>

\* the name of the ignore file, and the line separator of its text
GitignoreName == <<".", "g", "i", "t", "i", "g", "n", "o", "r", "e">>
Newline == "\n"

\* the two folders the directory picker can grant
Roots == {"r1", "r2"}

DirHandle(r, segs) == [root |-> r, segs |-> segs, kind |-> "directory"]
FileHandle(r, segs) == [root |-> r, segs |-> segs, kind |-> "file"]

RootDir(r) == DirHandle(r, << >>)

\* every location of the modelled disk: <<root, name, name, ...>>; c and
\* .gitignore do not exist at first
Locations ==
  { <<"r1">>, <<"r1", NameA>>, <<"r1", NameB>>, <<"r1", NameD>>,
    <<"r1", NameD, NameA>>, <<"r1", NameD, NameB>>, <<"r1", NameC>>,
    <<"r1", NameC, NameA>>, <<"r1", NameC, NameB>>,
    <<"r1", GitignoreName>>, <<"r2">>, <<"r2", NameA>> }

Loc(h) == <<h.root>> \o h.segs

NoEntry == [kind |-> "none", content |-> << >>]
DirEntry == [kind |-> "directory", content |-> << >>]
FileEntry(c) == [kind |-> "file", content |-> c]

\* handle.name: the last path component, or the folder name for a root
HandleName(h) == IF h.segs = << >> THEN <<h.root>> ELSE h.segs[Len(h.segs)]

\* ------------------------------------------------------------------- state
VARIABLES
  disk,              \* the file system: location -> entry
  rootHandle,        \* FileSystem.rootHandle
  lastFolderHandle,  \* IndexedDB record 'lastFolderHandle'
  editorSession,     \* chrome.storage.local 'editorSession'
  recentFiles,       \* chrome.storage.local 'recentFiles'
  entries,           \* FileTree.entries
  expanded,          \* paths of the folder elements with class 'expanded'
  renderedCurrent,   \* currentFileHandle captured by the rendered tree items
  gitignorePatterns, \* FileTree.gitignorePatterns
  openTabs,          \* CodeEditor.openTabs
  activeTabId,       \* CodeEditor.activeTabId
  currentFileHandle, \* CodeEditor.currentFileHandle
  currentFileName,   \* CodeEditor.currentFileName
  dirty,             \* CodeEditor.dirty
  view,              \* CodeEditor.view.state.doc
  tasks,             \* suspended openFile / saveCurrentFile calls
  initPc,            \* position of CodeEditor.init
  steps,             \* history: number of user actions so far
  hEdited,           \* history: tab objects edited since open / last save
  hSynced,           \* history: tab object -> text last read or written
  hIssued,           \* history: the openFile request issued last, while pending
  last               \* history: the handler segment that ran last

vars == << disk, rootHandle, lastFolderHandle, editorSession, recentFiles,
           entries, expanded, renderedCurrent, gitignorePatterns, openTabs, activeTabId,
           currentFileHandle, currentFileName, dirty, view, tasks, initPc,
           steps, hEdited, hSynced, hIssued,
           last >>

storageVars == << lastFolderHandle, editorSession, recentFiles >>
treeVars == << entries, expanded, renderedCurrent, gitignorePatterns >>
editorVars == << openTabs, activeTabId, currentFileHandle, currentFileName,
                 dirty, view >>

\* --------------------------------------------------------- string functions
RECURSIVE SplitRec(_, _, _, _)
SplitRec(s, i, cur, acc) ==
  IF i > Len(s) THEN Append(acc, cur)
  ELSE IF s[i] = "/" THEN SplitRec(s, i + 1, << >>, Append(acc, cur))
  ELSE SplitRec(s, i + 1, Append(cur, s[i]), acc)

\* String.prototype.split('/')
Split(s) == SplitRec(s, 1, << >>, << >>)

\* parentPath ? `${parentPath}/${name}` : name
JoinPath(parentPath, name) ==
  IF parentPath # << >> THEN parentPath \o <<"/">> \o name ELSE name

RECURSIVE PathOfSegs(_)
PathOfSegs(segs) ==
  IF segs = << >> THEN << >>
  ELSE JoinPath(PathOfSegs(SubSeq(segs, 1, Len(segs) - 1)), segs[Len(segs)])

\* index of the last '.' of a name, 0 when it has none
RECURSIVE LastDot(_, _)
LastDot(name, i) ==
  IF i = 0 THEN 0 ELSE IF name[i] = "." THEN i ELSE LastDot(name, i - 1)

\* langMap of getLanguageFromFileName: extension -> language name
LangMap ==
  << <<"js", "JavaScript">>, <<"jsx", "JavaScript (JSX)">>,
     <<"ts", "TypeScript">>, <<"tsx", "TypeScript (TSX)">>,
     <<"html", "HTML">>, <<"htm", "HTML">>, <<"css", "CSS">>,
     <<"scss", "SCSS">>, <<"less", "LESS">>, <<"py", "Python">>,
     <<"json", "JSON">>, <<"md", "Markdown">>, <<"mdx", "Markdown (MDX)">>,
     <<"sql", "SQL">> >>

\* the characters of a string constant, for extensions of up to four letters
Chars(ext) ==
  CASE ext = "js" -> <<"j","s">>        [] ext = "jsx" -> <<"j","s","x">>
    [] ext = "ts" -> <<"t","s">>        [] ext = "tsx" -> <<"t","s","x">>
    [] ext = "html" -> <<"h","t","m","l">> [] ext = "htm" -> <<"h","t","m">>
    [] ext = "css" -> <<"c","s","s">>   [] ext = "scss" -> <<"s","c","s","s">>
    [] ext = "less" -> <<"l","e","s","s">> [] ext = "py" -> <<"p","y">>
    [] ext = "json" -> <<"j","s","o","n">> [] ext = "md" -> <<"m","d">>
    [] ext = "mdx" -> <<"m","d","x">>   [] ext = "sql" -> <<"s","q","l">>

getLanguageFromFileName(fileName) ==
  LET d == LastDot(fileName, Len(fileName))
      ext == IF d = 0 THEN << >> ELSE SubSeq(fileName, d + 1, Len(fileName))
      hits == { i \in 1..Len(LangMap) : Chars(LangMap[i][1]) = ext }
  IN IF hits # {} THEN LangMap[CHOOSE i \in hits : TRUE][2] ELSE "Plain Text"

\* ------------------------------------------------------- platform: handles
EntryAt(d, loc) == IF loc \in Locations THEN d[loc] ELSE NoEntry

\* FileSystemDirectoryHandle.getFileHandle(name) without create
GetFileHandle(d, dir, name) ==
  IF EntryAt(d, Loc(dir)).kind = "directory"
       /\ EntryAt(d, Loc(dir) \o <<name>>).kind = "file"
  THEN [ok |-> TRUE, handle |-> FileHandle(dir.root, Append(dir.segs, name))]
  ELSE [ok |-> FALSE, handle |-> dir]

\* FileSystemDirectoryHandle.getDirectoryHandle(name) without create
GetDirectoryHandle(d, dir, name) ==
  IF EntryAt(d, Loc(dir)).kind = "directory"
       /\ EntryAt(d, Loc(dir) \o <<name>>).kind = "directory"
  THEN [ok |-> TRUE, handle |-> DirHandle(dir.root, Append(dir.segs, name))]
  ELSE [ok |-> FALSE, handle |-> dir]

\* the immediate children of a directory, as the platform iterates them
ChildLocs(d, dir) ==
  { loc \in Locations : /\ Len(loc) = Len(Loc(dir)) + 1
                        /\ SubSeq(loc, 1, Len(Loc(dir))) = Loc(dir)
                        /\ d[loc].kind # "none" }

\* order of String.prototype.localeCompare on the characters in use
Alphabet ==
  <<".", "/", "a", "b", "c", "d", "e", "g", "i", "n", "o", "r", "t">>

CharRank(c) == CHOOSE i \in 1..Len(Alphabet) : Alphabet[i] = c

RECURSIVE NameLess(_, _)
NameLess(a, b) ==
  IF a = << >> THEN b # << >>
  ELSE IF b = << >> THEN FALSE
  ELSE IF a[1] = b[1] THEN NameLess(Tail(a), Tail(b))
  ELSE CharRank(a[1]) < CharRank(b[1])

\* the comparator of readDirectory: directories first, then by name
EntryBefore(a, b) ==
  IF a.kind = "directory" /\ b.kind # "directory" THEN TRUE
  ELSE IF a.kind # "directory" /\ b.kind = "directory" THEN FALSE
  ELSE NameLess(a.name, b.name)

RECURSIVE SortEntries(_)
SortEntries(S) ==
  IF S = {} THEN << >>
  ELSE LET first == CHOOSE e \in S : \A o \in S \ {e} : EntryBefore(e, o)
       IN <<first>> \o SortEntries(S \ {first})

\* FileSystem.readDirectory: name, kind and handle of each child, sorted
readDirectory(d, handle) ==
  SortEntries({ [name |-> loc[Len(loc)], kind |-> d[loc].kind,
                 handle |-> [root |-> handle.root,
                             segs |-> Append(handle.segs, loc[Len(loc)]),
                             kind |-> d[loc].kind]] :
                loc \in ChildLocs(d, handle) })

\* children whose path leaves the parent's path out
readDirectoryLevelFlat(d, handle, parentPath) ==
  LET es == readDirectory(d, handle)
  IN [i \in 1..Len(es) |->
        [name |-> es[i].name, kind |-> es[i].kind, handle |-> es[i].handle,
         parentHandle |-> handle, path |-> es[i].name,
         children |-> NullChildren, childrenLoaded |-> FALSE]]

\* FileSystem.readDirectoryLevel: the children as unexpanded tree entries
readDirectoryLevel(d, handle, parentPath) ==
  LET es == readDirectory(d, handle)
  IN [i \in 1..Len(es) |->
        [name |-> es[i].name, kind |-> es[i].kind, handle |-> es[i].handle,
         parentHandle |-> handle, path |-> JoinPath(parentPath, es[i].name),
         children |-> NullChildren, childrenLoaded |-> FALSE]]

\* a directory can be enumerated only while it exists
CanEnumerate(d, handle) == EntryAt(d, Loc(handle)).kind = "directory"

\* ------------------------------------------------------------ the editor
\* the fields of CodeEditor that the handlers below read and write
Editor ==
  [openTabs |-> openTabs, activeTabId |-> activeTabId,
   currentFileHandle |-> currentFileHandle,
   currentFileName |-> currentFileName, dirty |-> dirty, view |-> view]

SetEditor(E) ==
  /\ openTabs' = E.openTabs
  /\ activeTabId' = E.activeTabId
  /\ currentFileHandle' = E.currentFileHandle
  /\ currentFileName' = E.currentFileName
  /\ dirty' = E.dirty
  /\ view' = E.view

NoFileOpen == <<"No file open">>

\* Array.prototype.findIndex on tab.id, 0 when there is none
FindIndex(tabs, tabId) ==
  IF \E i \in 1..Len(tabs) : tabs[i].id = tabId
  THEN CHOOSE i \in 1..Len(tabs) :
         tabs[i].id = tabId /\ \A j \in 1..(i - 1) : tabs[j].id # tabId
  ELSE 0

\* index of the tab object obj, 0 when it is no longer in the list
IndexOfObj(tabs, obj) ==
  IF \E i \in 1..Len(tabs) : tabs[i].obj = obj
  THEN CHOOSE i \in 1..Len(tabs) : tabs[i].obj = obj
  ELSE 0

\* CodeEditor.getActiveTab, as an index into openTabs
getActiveTab(E) == FindIndex(E.openTabs, E.activeTabId)

updateStatusBar(E) ==
  LET a == getActiveTab(E)
  IN IF a # 0
     THEN [E EXCEPT !.currentFileName = E.openTabs[a].name,
                    !.dirty = E.openTabs[a].dirty]
     ELSE E

\* an activation that also marks the tab clean
setActiveTabClean(E, tabId) ==
  LET i == FindIndex(E.openTabs, tabId)
  IN IF i = 0 THEN E
     ELSE updateStatusBar(
            [E EXCEPT !.openTabs = [E.openTabs EXCEPT ![i].dirty = FALSE],
                      !.activeTabId = E.openTabs[i].id,
                      !.currentFileHandle = E.openTabs[i].handle,
                      !.currentFileName = E.openTabs[i].name,
                      !.dirty = FALSE,
                      !.view = E.openTabs[i].state])

setActiveTab(E, tabId) ==
  LET i == FindIndex(E.openTabs, tabId)
  IN IF i = 0 THEN E
     ELSE updateStatusBar(
            [E EXCEPT !.activeTabId = E.openTabs[i].id,
                      !.currentFileHandle = E.openTabs[i].handle,
                      !.currentFileName = E.openTabs[i].name,
                      !.dirty = E.openTabs[i].dirty,
                      !.view = E.openTabs[i].state])

RemoveAt(seq, i) == SubSeq(seq, 1, i - 1) \o SubSeq(seq, i + 1, Len(seq))

\* a close that always activates the first tab
NextIdxFirst(idx) == 1

\* the tab activated when the active tab at index idx has been removed
NextIdx(idx) == IF idx - 1 > 1 THEN idx - 1 ELSE 1

\* FileSystem.saveSession; the timestamp is not modelled
saveSession(root, currentFilePath) ==
  [folderName |-> IF root # NullHandle THEN HandleName(root) ELSE NullStr,
   currentFilePath |-> IF currentFilePath # << >> THEN currentFilePath
                       ELSE NullStr]

\* a clear that leaves the record in place
clearSessionKeep(session) == session

\* FileSystem.clearSession: the editorSession record is removed
clearSession(session) == NoSession

\* a close that activates the left neighbour of whatever tab it removed
closeTabAlwaysActivates(E, session, root, tabId) ==
  LET idx == FindIndex(E.openTabs, tabId)
      rest == RemoveAt(E.openTabs, idx)
  IN IF idx = 0 THEN [editor |-> E, session |-> session]
     ELSE IF Len(rest) = 0
     THEN [editor |-> [openTabs |-> rest, activeTabId |-> NullStr,
                       currentFileHandle |-> NullHandle,
                       currentFileName |-> NoFileOpen, dirty |-> FALSE,
                       view |-> << >>],
           session |-> clearSession(session)]
     ELSE [editor |-> setActiveTab([E EXCEPT !.openTabs = rest],
                                   rest[NextIdx(idx)].id),
           session |-> saveSession(root, rest[NextIdx(idx)].path)]

\* a close that removes the tab and activates no other
closeTabKeepsActive(E, session, root, tabId) ==
  LET idx == FindIndex(E.openTabs, tabId)
  IN IF idx = 0 THEN [editor |-> E, session |-> session]
     ELSE [editor |-> [E EXCEPT !.openTabs = RemoveAt(E.openTabs, idx)],
           session |-> session]

\* CodeEditor.closeTab: the editor fields and the session record afterwards
closeTab(E, session, root, tabId) ==
  LET idx == FindIndex(E.openTabs, tabId)
      wasActive == E.activeTabId = tabId
      rest == RemoveAt(E.openTabs, idx)
  IN IF idx = 0 THEN [editor |-> E, session |-> session]
     ELSE IF Len(rest) = 0
     THEN [editor |-> [openTabs |-> rest, activeTabId |-> NullStr,
                       currentFileHandle |-> NullHandle,
                       currentFileName |-> NoFileOpen, dirty |-> FALSE,
                       view |-> << >>],
           session |-> clearSession(session)]
     ELSE IF wasActive
     THEN [editor |-> setActiveTab([E EXCEPT !.openTabs = rest],
                                   rest[NextIdx(idx)].id),
           session |-> saveSession(root, rest[NextIdx(idx)].path)]
     ELSE [editor |-> [E EXCEPT !.openTabs = rest], session |-> session]

\* a list that is never cut
saveRecentFileUncut(list, filePath) ==
  <<filePath>> \o SelectSeq(list, LAMBDA item : item # filePath)

\* CodeEditor.saveRecentFile
saveRecentFile(list, filePath) ==
  LET kept == SelectSeq(list, LAMBDA item : item # filePath)
      next == <<filePath>> \o kept
  IN SubSeq(next, 1, IF Len(next) < 20 THEN Len(next) ELSE 20)

\* ------------------------------------------------------ the ignore filter
\* the rules of the ignore file
Space == " "

RECURSIVE SplitLines(_, _, _, _)
SplitLines(s, i, cur, acc) ==
  IF i > Len(s) THEN Append(acc, cur)
  ELSE IF s[i] = Newline THEN SplitLines(s, i + 1, << >>, Append(acc, cur))
  ELSE SplitLines(s, i + 1, Append(cur, s[i]), acc)

\* String.prototype.trim, for the blanks in use
RECURSIVE Trim(_)
Trim(s) ==
  IF s # << >> /\ s[1] = Space THEN Trim(Tail(s))
  ELSE IF s # << >> /\ s[Len(s)] = Space THEN Trim(SubSeq(s, 1, Len(s) - 1))
  ELSE s

RECURSIVE ParseLines(_, _, _)
ParseLines(lines, i, patterns) ==
  IF i > Len(lines) THEN patterns
  ELSE LET trimmed == Trim(lines[i])
           negated == trimmed # << >> /\ trimmed[1] = "!"
           rawPattern == IF negated THEN Trim(Tail(trimmed)) ELSE trimmed
       IN IF trimmed = << >> \/ trimmed[1] = "#" \/ rawPattern = << >>
          THEN ParseLines(lines, i + 1, patterns)
          ELSE ParseLines(lines, i + 1,
                 Append(patterns, [pattern |-> rawPattern, negated |-> negated]))

parseGitignore(content) ==
  ParseLines(SplitLines(content, 1, << >>, << >>), 1, << >>)

\* FileTree.loadGitignore: the rules of the folder's .gitignore, none when
\* the file cannot be read
loadGitignore(d, root) ==
  LET found == GetFileHandle(d, root, GitignoreName)
  IN IF found.ok THEN parseGitignore(d[Loc(found.handle)].content) ELSE << >>

\* the regular expression of buildWildcardRegex, matched against a whole
\* string: '*' becomes '.*' and '?' becomes '.', the rest is literal; '.'
\* matches any character but a line terminator
RECURSIVE WildcardMatch(_, _)
WildcardMatch(pattern, str) ==
  IF pattern = << >> THEN str = << >>
  ELSE IF pattern[1] = "*"
  THEN \/ WildcardMatch(Tail(pattern), str)
       \/ /\ str # << >>
          /\ str[1] # Newline
          /\ WildcardMatch(pattern, Tail(str))
  ELSE IF str = << >> THEN FALSE
  ELSE IF pattern[1] = "?"
  THEN str[1] # Newline /\ WildcardMatch(Tail(pattern), Tail(str))
  ELSE pattern[1] = str[1] /\ WildcardMatch(Tail(pattern), Tail(str))

Includes(str, c) == \E i \in 1..Len(str) : str[i] = c

\* a match that applies directory-only patterns to files as well
ruleMatchesPathAnyKind(pattern, normalizedPath, fileName, isDirectory) ==
  LET directoryOnly == pattern # << >> /\ pattern[Len(pattern)] = "/"
      cleanPattern == IF directoryOnly
                      THEN SubSeq(pattern, 1, Len(pattern) - 1) ELSE pattern
      anchored == cleanPattern # << >> /\ cleanPattern[1] = "/"
      relativePattern == IF anchored THEN Tail(cleanPattern) ELSE cleanPattern
      basenamePattern == IF fileName # << >> THEN relativePattern ELSE << >>
  IN IF anchored THEN WildcardMatch(relativePattern, normalizedPath)
     ELSE IF ~Includes(relativePattern, "/")
     THEN WildcardMatch(basenamePattern, fileName)
     ELSE \/ WildcardMatch(relativePattern, normalizedPath)
          \/ WildcardMatch(relativePattern, <<"/">> \o normalizedPath)

\* FileTree.ruleMatchesPath
ruleMatchesPath(pattern, normalizedPath, fileName, isDirectory) ==
  LET directoryOnly == pattern # << >> /\ pattern[Len(pattern)] = "/"
      cleanPattern == IF directoryOnly
                      THEN SubSeq(pattern, 1, Len(pattern) - 1) ELSE pattern
      anchored == cleanPattern # << >> /\ cleanPattern[1] = "/"
      relativePattern == IF anchored THEN Tail(cleanPattern) ELSE cleanPattern
      basenamePattern == IF fileName # << >> THEN relativePattern ELSE << >>
  IN IF directoryOnly /\ ~isDirectory THEN FALSE
     ELSE IF anchored THEN WildcardMatch(relativePattern, normalizedPath)
     ELSE IF ~Includes(relativePattern, "/")
     THEN WildcardMatch(basenamePattern, fileName)
     ELSE \/ WildcardMatch(relativePattern, normalizedPath)
          \/ WildcardMatch(relativePattern, <<"/">> \o normalizedPath)

\* filePath.replace(/^\.?\//, '')
StripLead(p) ==
  IF Len(p) >= 2 /\ p[1] = "." /\ p[2] = "/" THEN SubSeq(p, 3, Len(p))
  ELSE IF Len(p) >= 1 /\ p[1] = "/" THEN Tail(p)
  ELSE p

\* filePath.replace(/\/+$/, '')
RECURSIVE StripTrail(_)
StripTrail(p) ==
  IF p # << >> /\ p[Len(p)] = "/" THEN StripTrail(SubSeq(p, 1, Len(p) - 1))
  ELSE p

RECURSIVE IgnoredAfter(_, _, _, _, _)
IgnoredAfter(rules, i, normalizedPath, isDirectory, ignored) ==
  IF i > Len(rules) THEN ignored
  ELSE LET parts == Split(normalizedPath)
           fileName == parts[Len(parts)]
       IN IgnoredAfter(rules, i + 1, normalizedPath, isDirectory,
            IF ruleMatchesPath(rules[i].pattern, normalizedPath, fileName,
                               isDirectory)
            THEN ~rules[i].negated ELSE ignored)

\* a filter in which the first matching rule decides
matchesGitignoreFirstWins(rules, filePath, isDirectory) ==
  LET normalizedPath == StripTrail(StripLead(filePath))
      parts == Split(normalizedPath)
      hits == { i \in 1..Len(rules) :
                  ruleMatchesPath(rules[i].pattern, normalizedPath,
                                  parts[Len(parts)], isDirectory) }
  IN IF hits = {} THEN FALSE
     ELSE ~rules[CHOOSE i \in hits : \A j \in hits : i <= j].negated

\* FileTree.matchesGitignore
matchesGitignore(rules, filePath, isDirectory) ==
  IgnoredAfter(rules, 1, StripTrail(StripLead(filePath)), isDirectory, FALSE)

\* a walk that enters excluded directories and filters the files only
RECURSIVE collectAllFilesPostFilter(_, _, _, _)
collectAllFilesPostFilter(d, rules, directoryHandle, parentPath) ==
  LET es == readDirectoryLevel(d, directoryHandle, parentPath)
      Visit[i \in 0..Len(es)] ==
        IF i = 0 THEN << >>
        ELSE IF es[i].kind = "file"
        THEN IF ~matchesGitignore(rules, es[i].path, FALSE)
             THEN Append(Visit[i - 1], [name |-> es[i].name,
                            path |-> es[i].path, handle |-> es[i].handle])
             ELSE Visit[i - 1]
        ELSE Visit[i - 1]
               \o collectAllFilesPostFilter(d, rules, es[i].handle, es[i].path)
  IN Visit[Len(es)]

\* FileTree.collectAllFiles: the files below a directory that pass the filter
RECURSIVE collectAllFiles(_, _, _, _)
collectAllFiles(d, rules, directoryHandle, parentPath) ==
  LET es == readDirectoryLevel(d, directoryHandle, parentPath)
      Visit[i \in 0..Len(es)] ==
        IF i = 0 THEN << >>
        ELSE IF es[i].kind = "file"
        THEN IF ~matchesGitignore(rules, es[i].path, FALSE)
             THEN Append(Visit[i - 1], [name |-> es[i].name,
                            path |-> es[i].path, handle |-> es[i].handle])
             ELSE Visit[i - 1]
        ELSE IF ~matchesGitignore(rules, es[i].path, TRUE)
        THEN Visit[i - 1] \o collectAllFiles(d, rules, es[i].handle, es[i].path)
        ELSE Visit[i - 1]
  IN Visit[Len(es)]

\* FileTree.getAllFiles: the rules are loaded again when none are loaded;
\* the files found, and the rules afterwards
getAllFiles(d, root, rules) ==
  IF root = NullHandle THEN [files |-> << >>, rules |-> rules]
  ELSE LET loaded == IF Len(rules) = 0 THEN loadGitignore(d, root) ELSE rules
       IN [files |-> collectAllFiles(d, loaded, root, << >>),
           rules |-> loaded]

\* ------------------------------------------------------- suspended handlers
IdleTask ==
  [op |-> "idle", pc |-> "", origin |-> "", handle |-> NullHandle,
   path |-> << >>, obj |-> 0, content |-> << >>]

Slots == 1..MaxPending

AllIdle == \A t \in Slots : tasks[t].op = "idle"

\* no handler is suspended and init has returned
Quiet == AllIdle /\ initPc \in {"done", "failed"}

\* a user action may run: between handlers when they run serially, at any
\* time otherwise
MayAct(serial) ==
  IF serial THEN steps < MaxSteps /\ Quiet ELSE steps < MaxAsyncSteps

\* a user action that suspends at an await needs a slot for the handler
MayStart(serial) == MayAct(serial) /\ \E t \in Slots : tasks[t].op = "idle"

FreeSlot == CHOOSE t \in Slots :
              tasks[t].op = "idle" /\ \A u \in 1..(t - 1) : tasks[u].op # "idle"

\* a name for a new tab object, unused by the open tabs and by the handlers
NewObj ==
  LET used == { openTabs[i].obj : i \in 1..Len(openTabs) }
                \cup { tasks[t].obj : t \in Slots }
  IN CHOOSE n \in 1..(Cardinality(used) + 1) : n \notin used

Did(op, id, result) == [op |-> op, id |-> id, result |-> result]

\* path || handle.name
TabIdOf(handle, path) == IF path # << >> THEN path ELSE HandleName(handle)

\* a lookup that never finds the tab
existingTabNone(tabs, tabId) == 0

\* ----------------------------------------------------------------- openFile
\* this.openTabs.find((tab) => tab.id === tabId), as an index
existingTab(tabs, tabId) == FindIndex(tabs, tabId)

\* openFile(handle, path) up to its first await, handle.getFile()
openFileCall(handle, path, origin) ==
  tasks' = [tasks EXCEPT ![FreeSlot] =
              [op |-> "openFile", pc |-> "getFile", origin |-> origin,
               handle |-> handle, path |-> path, obj |-> 0, content |-> << >>]]

\* history: no openFile is pending
NoRequest == [path |-> << >>, at |-> 0, slot |-> 0, opened |-> FALSE]

\* history: openFile(handle, path) is the request issued last; at is the
\* count of user actions then, slot the handler, opened whether it has
\* completed with its tab open
Issued(handle, path) ==
  [path |-> TabIdOf(handle, path), at |-> steps', slot |-> FreeSlot,
   opened |-> FALSE]

\* history: the openFile in slot t has completed, with its tab open or not
Settled(t, success) ==
  IF \A u \in Slots \ {t} : tasks[u].op # "openFile" THEN NoRequest
  ELSE IF t = hIssued.slot THEN [hIssued EXCEPT !.opened = success]
  ELSE hIssued

\* the items of the rendered tree: the top-level entries, and the loaded
\* children of the folders that are expanded
TreeItems ==
  { entries[i] : i \in 1..Len(entries) }
    \cup UNION { { entries[i].children.items[j] :
                     j \in 1..Len(entries[i].children.items) } :
                   i \in { k \in 1..Len(entries) :
                             entries[k].path \in expanded } }

TreeFileItems == { e \in TreeItems : e.kind = "file" }

\* the click listener of a file item goes on to onFileClick: the file that
\* was current when the item was built has another name than the entry
ClickOpens(e) ==
  ~(renderedCurrent # NullHandle
      /\ HandleName(renderedCurrent) = HandleName(e.handle))

\* the click listener of a file item of the rendered tree
TreeClickFile(serial) ==
  /\ MayStart(serial)
  /\ steps' = steps + 1
  /\ \E e \in TreeFileItems :
    /\ ClickOpens(e)
    /\ openFileCall(e.handle, e.path, "user")
    /\ hIssued' = Issued(e.handle, e.path)
    /\ last' = Did("openFileCall", e.path, "called")
    /\ UNCHANGED << disk, rootHandle, storageVars, treeVars, editorVars,
                    initPc, hEdited, hSynced >>

\* quick open: list the files of the folder, then run the chosen entry
QuickOpenFile(serial) ==
  /\ steps' = steps + 1
  /\ MayStart(serial)
  /\ rootHandle # NullHandle
  /\ CanEnumerate(disk, rootHandle)
  /\ \E all \in {getAllFiles(disk, rootHandle, gitignorePatterns)} :
       /\ gitignorePatterns' = all.rules
       /\ \E f \in { all.files[i] : i \in 1..Len(all.files) } :
            /\ openFileCall(f.handle, f.path, "user")
            /\ hIssued' = Issued(f.handle, f.path)
            /\ last' = Did("openFileCall", f.path, "called")
  /\ UNCHANGED << disk, rootHandle, storageVars, entries, expanded,
                  renderedCurrent, editorVars, initPc, hEdited, hSynced >>

\* init continues when the openFile call of restoreSession has settled
InitAfter(t) == IF tasks[t].origin = "restore" THEN "done" ELSE initPc

\* handle.getFile() settles: rejected, or the tab lookup and what follows it
openFileGotFile(t) ==
  /\ UNCHANGED steps
  /\ tasks[t].op = "openFile" /\ tasks[t].pc = "getFile"
  /\ LET h == tasks[t].handle
         tabId == TabIdOf(h, tasks[t].path)
         existing == existingTab(openTabs, tabId)
     IN \E ok \in BOOLEAN :
          /\ ok => EntryAt(disk, Loc(h)).kind = "file"
          /\ IF ~ok
             THEN /\ tasks' = [tasks EXCEPT ![t] = IdleTask]
                  /\ initPc' = InitAfter(t)
                  /\ last' = Did("openFile", tabId, "rejected")
                  /\ hIssued' = Settled(t, FALSE)
                  /\ UNCHANGED << editorVars, editorSession >>
             ELSE IF existing # 0
             THEN /\ SetEditor(setActiveTab(Editor, openTabs[existing].id))
                  /\ editorSession' =
                       saveSession(rootHandle,
                                   IF openTabs[existing].path # << >>
                                   THEN openTabs[existing].path
                                   ELSE openTabs[existing].name)
                  /\ tasks' = [tasks EXCEPT ![t] = IdleTask]
                  /\ initPc' = InitAfter(t)
                  /\ last' = Did("openFile", tabId, "existing")
                  /\ hIssued' = Settled(t, TRUE)
             ELSE /\ tasks' = [tasks EXCEPT ![t].pc = "text",
                                            ![t].content = disk[Loc(h)].content]
                  /\ last' = Did("openFile", tabId, "reading")
                  /\ UNCHANGED << editorVars, editorSession, initPc,
                                  hIssued >>
  /\ UNCHANGED << disk, rootHandle, lastFolderHandle, recentFiles, treeVars,
                  hEdited, hSynced >>

\* file.text() settles: rejected, or the new tab is appended and activated
openFileGotText(t) ==
  /\ UNCHANGED steps
  /\ tasks[t].op = "openFile" /\ tasks[t].pc = "text"
  /\ LET h == tasks[t].handle
         tabId == TabIdOf(h, tasks[t].path)
         tab == [obj |-> NewObj, id |-> tabId, name |-> HandleName(h),
                 path |-> TabIdOf(h, tasks[t].path), handle |-> h,
                 language |-> getLanguageFromFileName(HandleName(h)),
                 state |-> tasks[t].content, dirty |-> FALSE]
     IN \E ok \in BOOLEAN :
          /\ ok => EntryAt(disk, Loc(h)) = FileEntry(tasks[t].content)
          /\ IF ~ok
             THEN /\ last' = Did("openFile", tabId, "rejected")
                  /\ hIssued' = Settled(t, FALSE)
                  /\ UNCHANGED << editorVars, editorSession, recentFiles,
                                  hSynced >>
             ELSE /\ SetEditor(setActiveTab(
                       [Editor EXCEPT !.openTabs = Append(openTabs, tab)],
                       tab.id))
                  /\ recentFiles' = saveRecentFile(recentFiles, tab.path)
                  /\ editorSession' = saveSession(rootHandle, tab.path)
                  /\ hSynced' = [o \in DOMAIN hSynced \cup {tab.obj} |->
                                   IF o = tab.obj THEN tab.state
                                   ELSE hSynced[o]]
                  /\ last' = Did("openFile", tabId, "new")
                  /\ hIssued' = Settled(t, TRUE)
  /\ tasks' = [tasks EXCEPT ![t] = IdleTask]
  /\ initPc' = InitAfter(t)
  /\ UNCHANGED << disk, rootHandle, lastFolderHandle, treeVars, hEdited >>

\* a save that takes the text of the first tab
saveContentFirstTab(E) == E.openTabs[1].state

\* ---------------------------------------------------------- saveCurrentFile
\* const content = this.view.state.doc.toString()
saveContent(E) == E.view

\* a rejected save that still marks the tab clean
saveRejectedClean(E, obj) ==
  LET i == IndexOfObj(E.openTabs, obj)
  IN IF i = 0 THEN E
     ELSE updateStatusBar(
            [E EXCEPT !.openTabs = [E.openTabs EXCEPT ![i].dirty = FALSE],
                      !.dirty = FALSE])

\* an await of saveCurrentFile is rejected: the exception leaves the
\* function, and none of the statements after the await runs
saveRejected(E, obj) == E

\* saveCurrentFile up to its first await, handle.createWritable()
saveCurrentFileCall(serial) ==
  /\ steps' = steps + 1
  /\ MayStart(serial)
  /\ LET a == getActiveTab(Editor)
     IN IF a = 0
        THEN /\ last' = Did("save", NullStr, "noTab")
             /\ UNCHANGED tasks
        ELSE /\ tasks' = [tasks EXCEPT ![FreeSlot] =
                            [op |-> "save", pc |-> "createWritable",
                             origin |-> "user", handle |-> openTabs[a].handle,
                             path |-> openTabs[a].id, obj |-> openTabs[a].obj,
                             content |-> saveContent(Editor)]]
             /\ last' = Did("save", openTabs[a].id, "called")
  /\ UNCHANGED << disk, rootHandle, storageVars, treeVars, editorVars, initPc,
                  hEdited, hSynced, hIssued >>

\* createWritable() or write(content) settles
saveStreamStep(t) ==
  /\ UNCHANGED steps
  /\ tasks[t].op = "save" /\ tasks[t].pc \in {"createWritable", "write"}
  /\ \E ok \in BOOLEAN :
       /\ (ok /\ tasks[t].pc = "createWritable")
            => EntryAt(disk, Loc(tasks[t].handle)).kind = "file"
       /\ IF ok
          THEN /\ tasks' = [tasks EXCEPT ![t].pc =
                              IF tasks[t].pc = "createWritable" THEN "write"
                              ELSE "close"]
               /\ last' = Did("save", tasks[t].path, tasks[t].pc)
               /\ UNCHANGED editorVars
          ELSE /\ tasks' = [tasks EXCEPT ![t] = IdleTask]
               /\ SetEditor(saveRejected(Editor, tasks[t].obj))
               /\ last' = Did("save", tasks[t].path, "rejected")
  /\ UNCHANGED << disk, rootHandle, storageVars, treeVars, initPc, hEdited,
                  hSynced, hIssued >>

\* the tab fields written after the stream has been closed
saveCommit(E, obj) ==
  LET i == IndexOfObj(E.openTabs, obj)
      tabs == IF i = 0 THEN E.openTabs
              ELSE [E.openTabs EXCEPT ![i].dirty = FALSE, ![i].state = E.view]
  IN updateStatusBar([E EXCEPT !.openTabs = tabs, !.dirty = FALSE])

\* writable.close() settles: the content reaches the file and the tab is
\* marked clean, or the call is rejected
saveClosed(t) ==
  /\ UNCHANGED steps
  /\ tasks[t].op = "save" /\ tasks[t].pc = "close"
  /\ \E ok \in BOOLEAN :
       IF ok
       THEN /\ disk' = [disk EXCEPT ![Loc(tasks[t].handle)] =
                          FileEntry(tasks[t].content)]
            /\ SetEditor(saveCommit(Editor, tasks[t].obj))
            /\ hEdited' = hEdited \ {tasks[t].obj}
            /\ hSynced' = [o \in DOMAIN hSynced |->
                             IF o = tasks[t].obj THEN tasks[t].content
                             ELSE hSynced[o]]
            /\ last' = Did("save", tasks[t].path, "saved")
       ELSE /\ SetEditor(saveRejected(Editor, tasks[t].obj))
            /\ last' = Did("save", tasks[t].path, "rejected")
            /\ UNCHANGED << disk, hEdited, hSynced >>
  /\ tasks' = [tasks EXCEPT ![t] = IdleTask]
  /\ UNCHANGED << rootHandle, storageVars, treeVars, initPc, hIssued >>

\* a listener that stores the state in every tab
updateListenerEveryTab(E, docChanged, doc) ==
  LET seen == [i \in 1..Len(E.openTabs) |->
                 [E.openTabs[i] EXCEPT !.state = doc,
                                       !.dirty = @ \/ docChanged]]
  IN IF docChanged
     THEN updateStatusBar([E EXCEPT !.openTabs = seen, !.dirty = TRUE,
                                    !.view = doc])
     ELSE [E EXCEPT !.openTabs = seen]

\* a listener that forgets to mark the tab dirty
updateListenerNoDirty(E, docChanged, doc) ==
  LET a == getActiveTab(E)
      seen == IF a = 0 THEN E.openTabs
              ELSE [E.openTabs EXCEPT ![a].state = doc]
  IN IF docChanged
     THEN updateStatusBar([E EXCEPT !.openTabs = seen, !.view = doc])
     ELSE [E EXCEPT !.openTabs = seen]

\* ------------------------------------------------------------------ editing
\* the update listener of the editing surface, for a transaction of the user
updateListener(E, docChanged, doc) ==
  LET a == getActiveTab(E)
      seen == IF a = 0 THEN E.openTabs
              ELSE [E.openTabs EXCEPT ![a].state = doc]
      marked == IF a = 0 \/ ~docChanged THEN seen
                ELSE [seen EXCEPT ![a].dirty = TRUE]
  IN IF docChanged
     THEN updateStatusBar([E EXCEPT !.openTabs = marked, !.dirty = TRUE,
                                    !.view = doc])
     ELSE [E EXCEPT !.openTabs = seen]

Edit(serial) ==
  /\ steps' = steps + 1
  /\ MayAct(serial)
  /\ \E docChanged \in BOOLEAN, doc \in Texts :
       /\ ~docChanged => doc = view
       /\ SetEditor(updateListener(Editor, docChanged, doc))
       /\ LET a == getActiveTab(Editor)
          IN hEdited' = IF docChanged /\ a # 0
                        THEN hEdited \cup {openTabs[a].obj} ELSE hEdited
       /\ last' = Did("edit", activeTabId,
                      IF docChanged THEN "docChanged" ELSE "selection")
  /\ UNCHANGED << disk, rootHandle, storageVars, treeVars, tasks, initPc,
                  hSynced, hIssued >>

\* -------------------------------------------------------------- the tab bar
\* click on a tab of the tab bar
TabClick(serial) ==
  /\ steps' = steps + 1
  /\ \E i \in 1..Len(openTabs) :
    /\ MayAct(serial)
    /\ SetEditor(setActiveTab(Editor, openTabs[i].id))
    /\ last' = Did("tabClick", openTabs[i].id, "activated")
    /\ UNCHANGED << disk, rootHandle, storageVars, treeVars, tasks, initPc,
                    hEdited, hSynced, hIssued >>

\* click on the close button of a tab
CloseTabClick(serial) ==
  /\ steps' = steps + 1
  /\ \E i \in 1..Len(openTabs) :
    LET tabId == openTabs[i].id
        idx == FindIndex(openTabs, tabId)
        after == closeTab(Editor, editorSession, rootHandle, tabId)
    IN /\ MayAct(serial)
       /\ SetEditor(after.editor)
       /\ editorSession' = after.session
       /\ hEdited' = hEdited \ {openTabs[idx].obj}
       /\ hSynced' = [o \in DOMAIN hSynced \ {openTabs[idx].obj} |-> hSynced[o]]
       /\ last' = Did("closeTab", tabId,
                      IF Len(openTabs) = 1 THEN "last"
                      ELSE IF activeTabId = tabId THEN "active" ELSE "other")
       /\ UNCHANGED << disk, rootHandle, lastFolderHandle, recentFiles,
                       treeVars, tasks, initPc, hIssued >>

\* ------------------------------------------------------------ the browse tree
\* a refresh that empties the tree when its enumeration is rejected
refreshClearsOnFailure(d, root, ok) ==
  IF root = NullHandle
  THEN /\ expanded' = {}
       /\ UNCHANGED << entries, renderedCurrent >>
  ELSE IF ok
  THEN /\ entries' = readDirectoryLevel(d, root, << >>)
       /\ renderedCurrent' = currentFileHandle
       /\ expanded' = {}
  ELSE /\ entries' = << >>
       /\ expanded' = {}
       /\ UNCHANGED renderedCurrent

\* a refresh that also reads the folders of the root
refreshDeep(d, root, ok) ==
  IF root = NullHandle
  THEN /\ expanded' = {}
       /\ UNCHANGED << entries, renderedCurrent >>
  ELSE IF ok
  THEN /\ entries' =
            LET top == readDirectoryLevel(d, root, << >>)
            IN [i \in 1..Len(top) |->
                  IF top[i].kind = "directory"
                  THEN [top[i] EXCEPT
                          !.children = ChildList(readDirectoryLevel(
                                         d, top[i].handle, top[i].path)),
                          !.childrenLoaded = TRUE]
                  ELSE top[i]]
       /\ renderedCurrent' = currentFileHandle
       /\ expanded' = {}
  ELSE UNCHANGED << entries, expanded, renderedCurrent >>

\* a refresh that keeps the children lists of the folders that are still there
refreshKeepsLoaded(d, root, ok) ==
  IF root = NullHandle
  THEN /\ expanded' = {}
       /\ UNCHANGED << entries, renderedCurrent >>
  ELSE IF ok
  THEN /\ entries' =
            LET fresh == readDirectoryLevel(d, root, << >>)
            IN [i \in 1..Len(fresh) |->
                  IF \E j \in 1..Len(entries) :
                       entries[j].path = fresh[i].path
                  THEN entries[CHOOSE j \in 1..Len(entries) :
                                 entries[j].path = fresh[i].path]
                  ELSE fresh[i]]
       /\ renderedCurrent' = currentFileHandle
       /\ expanded' = {}
  ELSE UNCHANGED << entries, expanded, renderedCurrent >>

\* FileTree.refresh once its enumeration has settled; rendering builds the
\* items anew, none of them expanded
refresh(d, root, ok) ==
  IF root = NullHandle
  THEN /\ expanded' = {}
       /\ UNCHANGED << entries, renderedCurrent >>
  ELSE IF ok
  THEN /\ entries' = readDirectoryLevel(d, root, << >>)
       /\ renderedCurrent' = currentFileHandle
       /\ expanded' = {}
  ELSE UNCHANGED << entries, expanded, renderedCurrent >>

\* refresh returns normally
Refreshed(root, ok) == root = NullHandle \/ ok

\* a store that keeps the first handle it was given
persistHandleKeepFirst(persisted, handle) ==
  IF persisted = NullHandle THEN handle ELSE persisted

\* FileSystem.persistHandle: put(handle, key) into the handle store. The store
\* is the durable store the editor takes it to be: the database opens and the
\* transaction completes.
persistHandle(persisted, handle) == handle

\* FileSystem.getPersistedHandle: the stored handle, null when there is none
getPersistedHandle(persisted) == persisted

\* the outcomes of window.showDirectoryPicker(): a granted folder, the user
\* dismissing the picker (AbortError), or another error
PickerChoices == Roots \cup {"cancel", "error"}

\* a cancelled picker that also forgets the open folder
openDirectoryCancelResets(root, persisted, choice) ==
  IF choice \in Roots
  THEN [handle |-> RootDir(choice), rootHandle |-> RootDir(choice),
        lastFolderHandle |-> persistHandle(persisted, RootDir(choice)),
        logged |-> FALSE]
  ELSE [handle |-> NullHandle, rootHandle |-> NullHandle,
        lastFolderHandle |-> persisted, logged |-> choice # "cancel"]

\* FileSystem.openDirectory: the handle returned, the root handle and the
\* persisted handle afterwards, and whether console.error was called
openDirectory(root, persisted, choice) ==
  IF choice \in Roots
  THEN [handle |-> RootDir(choice), rootHandle |-> RootDir(choice),
        lastFolderHandle |-> persistHandle(persisted, RootDir(choice)),
        logged |-> FALSE]
  ELSE [handle |-> NullHandle, rootHandle |-> root,
        lastFolderHandle |-> persisted, logged |-> choice # "cancel"]

\* FileSystem.openDirectory when saveLastOpenedFolder may throw: the root
\* handle is assigned before the handle is persisted, and the catch block
\* logs the error and returns null
openDirectoryStoring(root, persisted, choice, stored) ==
  IF choice \in Roots /\ ~stored
  THEN [handle |-> NullHandle, rootHandle |-> RootDir(choice),
        lastFolderHandle |-> persisted, logged |-> TRUE]
  ELSE openDirectory(root, persisted, choice)

\* FileTree.openFolder: the picker, the grant, the rules, the tree, the
\* session; outcomes holds the ways persisting the granted handle can end
openFolderStoring(serial, outcomes) ==
  /\ steps' = steps + 1
  /\ MayAct(serial)
  /\ \E choice \in PickerChoices, ok \in BOOLEAN, stored \in outcomes :
       LET res == openDirectoryStoring(rootHandle, lastFolderHandle, choice,
                                       stored)
       IN /\ stored \/ choice \in Roots
          /\ rootHandle' = res.rootHandle
          /\ lastFolderHandle' = res.lastFolderHandle
          /\ IF res.handle = NullHandle
             THEN /\ ok
                  /\ last' = [op |-> "openFolder", id |-> NullStr,
                              result |-> IF choice = "cancel" THEN "cancelled"
                                         ELSE "failed",
                              logged |-> res.logged]
                  /\ UNCHANGED << editorSession, treeVars >>
             ELSE /\ ok => CanEnumerate(disk, res.handle)
                  /\ gitignorePatterns' = loadGitignore(disk, res.handle)
                  /\ refresh(disk, res.rootHandle, ok)
                  /\ editorSession' = IF ok THEN clearSession(editorSession)
                                      ELSE editorSession
                  /\ last' = [op |-> "openFolder", id |-> <<choice>>,
                              result |-> IF ok THEN "opened" ELSE "rejected",
                              logged |-> res.logged]
  /\ UNCHANGED << disk, recentFiles, editorVars, tasks, initPc, hEdited,
                  hSynced, hIssued >>

\* FileTree.openFolder with a handle store in which every put completes
openFolder(serial) == openFolderStoring(serial, {TRUE})

IsPrefix(p, q) == Len(p) <= Len(q) /\ SubSeq(q, 1, Len(p)) = p

\* removeEntry(name, { recursive: true })
RemoveEntry(d, loc) ==
  [l \in Locations |-> IF IsPrefix(loc, l) THEN NoEntry ELSE d[l]]

\* FileSystem.deleteEntry with the parent handle given: true when removed
deleteEntry(d, handle, parentHandle, ok) ==
  LET loc == Loc(parentHandle) \o <<HandleName(handle)>>
  IN IF ok /\ EntryAt(d, Loc(parentHandle)).kind = "directory"
           /\ EntryAt(d, loc).kind # "none"
     THEN [removed |-> TRUE, disk |-> RemoveEntry(d, loc)]
     ELSE [removed |-> FALSE, disk |-> d]

\* getFileHandle(name, { create: true }), createWritable(), write(content)
\* and close() on a directory: failAt names the call that is rejected. The
\* file exists, empty, once getFileHandle has created it; the content reaches
\* it when the stream is closed.
WriteNewFile(d, dir, name, content, failAt) ==
  LET loc == Loc(dir) \o <<name>>
      got == /\ failAt # "getFileHandle"
             /\ EntryAt(d, Loc(dir)).kind = "directory"
             /\ loc \in Locations
             /\ d[loc].kind # "directory"
      created == IF got /\ d[loc].kind = "none"
                 THEN [d EXCEPT ![loc] = FileEntry(<< >>)] ELSE d
  IN IF ~got THEN [ok |-> FALSE, disk |-> d]
     ELSE IF failAt # "none" THEN [ok |-> FALSE, disk |-> created]
     ELSE [ok |-> TRUE, disk |-> [d EXCEPT ![loc] = FileEntry(content)]]

\* FileSystem.createFile: a handle (ok) or null
createFile(d, parentHandle, fileName, failAt) ==
  WriteNewFile(d, parentHandle, fileName, << >>, failAt)

\* FileSystem.createDirectory: a handle (ok) or null
createDirectory(d, parentHandle, dirName, failAt) ==
  LET loc == Loc(parentHandle) \o <<dirName>>
      got == /\ failAt # "getDirectoryHandle"
             /\ EntryAt(d, Loc(parentHandle)).kind = "directory"
             /\ loc \in Locations
             /\ d[loc].kind # "file"
  IN IF ~got THEN [ok |-> FALSE, disk |-> d]
     ELSE [ok |-> TRUE, disk |-> [d EXCEPT ![loc] = DirEntry]]

\* the names of the children of a directory
ChildNames(d, dir) == { loc[Len(loc)] : loc \in ChildLocs(d, dir) }

\* the orders in which the platform may iterate a set of names
Orders(S) ==
  { o \in [1..Cardinality(S) -> S] : \A i, j \in DOMAIN o : i # j => o[i] # o[j] }

\* the loop of copyDirectoryContents from the i-th child on; the k-th copy is
\* rejected at the call failAt. The modelled folders hold files only.
RECURSIVE CopyFrom(_, _, _, _, _, _, _)
CopyFrom(d, source, target, order, i, k, failAt) ==
  IF i > Len(order) THEN [ok |-> TRUE, disk |-> d]
  ELSE LET from == Loc(source) \o <<order[i]>>
           res == IF EntryAt(d, from).kind = "file"
                  THEN WriteNewFile(d, target, order[i], d[from].content,
                                    IF i = k /\ failAt \in {"getFileHandle",
                                                             "write"}
                                    THEN failAt ELSE "none")
                  ELSE [ok |-> FALSE, disk |-> d]
       IN IF res.ok THEN CopyFrom(res.disk, source, target, order, i + 1, k,
                                  failAt)
          ELSE res

\* FileSystem.copyDirectoryContents, the children iterated in the given order
copyDirectoryContents(d, source, target, order, k, failAt) ==
  IF ~CanEnumerate(d, source) \/ failAt = "values"
  THEN [ok |-> FALSE, disk |-> d]
  ELSE CopyFrom(d, source, target, order, 1, k, failAt)

\* the new entry of renameEntry: created and, for a folder, filled
RenameCopy(d, handle, newName, parentHandle, order, k, failAt) ==
  IF handle.kind = "directory"
  THEN LET made == createDirectory(d, parentHandle, newName, failAt)
       IN IF ~made.ok THEN made
          ELSE copyDirectoryContents(made.disk, handle,
                 DirHandle(parentHandle.root,
                           Append(parentHandle.segs, newName)),
                 order, k, failAt)
  ELSE IF EntryAt(d, Loc(handle)).kind # "file"
  THEN [ok |-> FALSE, disk |-> d]
  ELSE WriteNewFile(d, parentHandle, newName, d[Loc(handle)].content,
                    IF failAt \in {"getFileHandle", "write"} THEN failAt
                    ELSE "none")

\* a rename that removes the original whether or not the copy was made
renameEntryEager(d, handle, newName, parentHandle, order, k, failAt) ==
  LET old == Loc(parentHandle) \o <<HandleName(handle)>>
      copy == RenameCopy(d, handle, newName, parentHandle, order, k, failAt)
  IN IF failAt = "removeEntry" \/ EntryAt(copy.disk, old).kind = "none"
     THEN [renamed |-> FALSE, disk |-> copy.disk]
     ELSE [renamed |-> copy.ok, disk |-> RemoveEntry(copy.disk, old)]

\* FileSystem.renameEntry with the parent handle given: true when renamed.
\* order is the order in which a folder's children are iterated, k and failAt
\* name the call that is rejected.
renameEntry(d, handle, newName, parentHandle, order, k, failAt) ==
  LET old == Loc(parentHandle) \o <<HandleName(handle)>>
      copy == RenameCopy(d, handle, newName, parentHandle, order, k, failAt)
  IN IF ~copy.ok THEN [renamed |-> FALSE, disk |-> copy.disk]
     ELSE IF failAt = "removeEntry" \/ EntryAt(copy.disk, old).kind = "none"
     THEN [renamed |-> FALSE, disk |-> copy.disk]
     ELSE [renamed |-> TRUE, disk |-> RemoveEntry(copy.disk, old)]

\* a deletion that also closes the tabs of the deleted file
treeDeleteEntryClosing(serial) ==
  /\ MayAct(serial)
  /\ steps' = steps + 1
  /\ \E e \in TreeFileItems :
       \E res \in {deleteEntry(disk, e.handle, e.parentHandle, TRUE)} :
         /\ disk' = res.disk
         /\ CanEnumerate(res.disk, rootHandle)
         /\ refresh(res.disk, rootHandle, TRUE)
         /\ last' = Did("delete", e.path,
                        IF res.removed THEN "removed" ELSE "failed")
         /\ openTabs' = SelectSeq(openTabs, LAMBDA tab : tab.id # e.path)
  /\ UNCHANGED << rootHandle, storageVars, gitignorePatterns, activeTabId,
                  currentFileHandle, currentFileName, dirty, view, tasks,
                  initPc, hEdited, hSynced, hIssued >>

\* FileTree.deleteEntry from the context menu of a file item
treeDeleteEntry(serial) ==
  /\ MayAct(serial)
  /\ steps' = steps + 1
  /\ \E e \in TreeFileItems :
    /\ \E confirmed \in BOOLEAN, rmOk \in BOOLEAN, ok \in BOOLEAN :
         IF ~confirmed
         THEN /\ rmOk /\ ok
              /\ last' = Did("delete", e.path, "declined")
              /\ UNCHANGED << disk, entries, expanded, renderedCurrent >>
         ELSE \E res \in {deleteEntry(disk, e.handle, e.parentHandle, rmOk)} :
                 /\ disk' = res.disk
                 /\ ok => CanEnumerate(res.disk, rootHandle)
                 /\ refresh(res.disk, rootHandle, ok)
                 /\ last' = Did("delete", e.path,
                                IF ~Refreshed(rootHandle, ok) THEN "rejected"
                                ELSE IF res.removed THEN "removed"
                                ELSE "failed")
    /\ UNCHANGED << rootHandle, storageVars, gitignorePatterns, editorVars,
                    tasks, initPc, hEdited, hSynced, hIssued >>

\* the answers to prompt(): a name, or nothing
PromptNames == {NameA, NameB, NameC, NameD}
PromptAnswers == PromptNames \cup {<< >>}

\* the calls of renameEntry, createFile and createDirectory that may be
\* rejected
FileFailPoints == {"none", "getFileHandle", "write", "removeEntry"}
DirFailPoints ==
  {"none", "getDirectoryHandle", "values", "getFileHandle", "write",
   "removeEntry"}
CreateFailPoints == {"none", "getFileHandle", "write"}
MkdirFailPoints == {"none", "getDirectoryHandle"}

\* the calls inside the copy of one file
CopyFailPoints == {"getFileHandle", "write"}

\* the orders of iteration that make a difference: every order when the copy
\* of a file is rejected, else the one by name
IterationOrders(S, failAt) ==
  IF failAt \in CopyFailPoints THEN Orders(S)
  ELSE { o \in Orders(S) :
           \A i, j \in DOMAIN o : i < j => NameLess(o[i], o[j]) }

\* FileTree.renameEntry(entry) for an entry among items
fileTreeRenameEntry(serial, items) ==
  /\ MayAct(serial)
  /\ steps' = steps + 1
  /\ \E e \in items, newName \in PromptAnswers, ok \in BOOLEAN :
       IF newName = << >> \/ newName = e.name
       THEN /\ ok
            /\ last' = [op |-> "rename", id |-> e.path, result |-> "declined"]
            /\ UNCHANGED << disk, entries, expanded, renderedCurrent >>
       ELSE /\ Loc(e.parentHandle) \o <<newName>> \in Locations
            /\ e.kind = "directory"
                 => \A n \in ChildNames(disk, e.handle) :
                      Loc(e.parentHandle) \o <<newName, n>> \in Locations
            /\ \E failAt \in IF e.kind = "directory" THEN DirFailPoints
                             ELSE FileFailPoints :
                 \E order \in IterationOrders(
                                IF e.kind = "directory"
                                THEN ChildNames(disk, e.handle) ELSE {},
                                failAt),
                    k \in IF failAt \in CopyFailPoints /\ e.kind = "directory"
                          THEN 1..Cardinality(ChildNames(disk, e.handle))
                          ELSE {1} :
                   \E res \in {renameEntry(disk, e.handle, newName,
                                           e.parentHandle, order, k, failAt)} :
                     /\ disk' = res.disk
                     /\ ok => CanEnumerate(res.disk, rootHandle)
                     /\ refresh(res.disk, rootHandle, ok)
                     /\ last' = [op |-> "rename", id |-> e.path,
                                 result |-> IF ~Refreshed(rootHandle, ok)
                                            THEN "rejected"
                                            ELSE IF res.renamed THEN "renamed"
                                            ELSE "failed",
                                 entry |-> e, newName |-> newName,
                                 failAt |-> failAt, renamed |-> res.renamed]
  /\ UNCHANGED << rootHandle, storageVars, gitignorePatterns, editorVars,
                  tasks, initPc, hEdited, hSynced, hIssued >>

\* 'rename' of the context menu, which file items have
treeRenameEntry(serial) == fileTreeRenameEntry(serial, TreeFileItems)

\* FileTree.createNewFile
createNewFile(serial) ==
  IF rootHandle = NullHandle THEN openFolder(serial)
  ELSE
  /\ MayAct(serial)
  /\ steps' = steps + 1
  /\ \E fileName \in PromptAnswers, failAt \in CreateFailPoints,
        ok \in BOOLEAN :
       IF fileName = << >>
       THEN /\ ok /\ failAt = "none"
            /\ last' = Did("createFile", fileName, "declined")
            /\ UNCHANGED << disk, entries, expanded, renderedCurrent >>
       ELSE \E res \in {createFile(disk, rootHandle, fileName, failAt)} :
               /\ disk' = res.disk
               /\ ok => CanEnumerate(res.disk, rootHandle)
               /\ refresh(res.disk, rootHandle, ok)
               /\ last' = Did("createFile", fileName,
                              IF ~Refreshed(rootHandle, ok) THEN "rejected"
                              ELSE IF res.ok THEN "created" ELSE "failed")
  /\ UNCHANGED << rootHandle, storageVars, gitignorePatterns, editorVars,
                  tasks, initPc, hEdited, hSynced, hIssued >>

\* FileTree.createNewFolder
createNewFolder(serial) ==
  IF rootHandle = NullHandle THEN openFolder(serial)
  ELSE
  /\ MayAct(serial)
  /\ steps' = steps + 1
  /\ \E dirName \in PromptAnswers, failAt \in MkdirFailPoints,
        ok \in BOOLEAN :
       IF dirName = << >>
       THEN /\ ok /\ failAt = "none"
            /\ last' = Did("createFolder", dirName, "declined")
            /\ UNCHANGED << disk, entries, expanded, renderedCurrent >>
       ELSE \E res \in {createDirectory(disk, rootHandle, dirName, failAt)} :
               /\ disk' = res.disk
               /\ ok => CanEnumerate(res.disk, rootHandle)
               /\ refresh(res.disk, rootHandle, ok)
               /\ last' = Did("createFolder", dirName,
                              IF ~Refreshed(rootHandle, ok) THEN "rejected"
                              ELSE IF res.ok THEN "created" ELSE "failed")
  /\ UNCHANGED << rootHandle, storageVars, gitignorePatterns, editorVars,
                  tasks, initPc, hEdited, hSynced, hIssued >>

\* the refresh button
refreshClick(serial) ==
  /\ MayAct(serial)
  /\ steps' = steps + 1
  /\ \E ok \in BOOLEAN :
       /\ ok => (rootHandle = NullHandle \/ CanEnumerate(disk, rootHandle))
       /\ refresh(disk, rootHandle, ok)
       /\ last' = Did("refresh", NullStr,
                      IF Refreshed(rootHandle, ok) THEN "refreshed"
                      ELSE "rejected")
  /\ UNCHANGED << disk, rootHandle, storageVars, gitignorePatterns,
                  editorVars, tasks, initPc, hEdited, hSynced, hIssued >>

\* an expansion that reads the folder every time
toggleLoadsAlways(entry) == TRUE

\* if (!entry.childrenLoaded): whether toggleFolder has to read the folder
toggleLoads(entry) == ~entry.childrenLoaded

\* FileTree.toggleFolder: click on a folder item of the rendered tree
toggleFolder(serial) ==
  /\ MayAct(serial)
  /\ steps' = steps + 1
  /\ \E i \in 1..Len(entries), ok \in BOOLEAN :
       LET entry == entries[i]
       IN /\ entry.kind = "directory"
          /\ IF entry.path \in expanded
             THEN /\ ok
                  /\ expanded' = expanded \ {entry.path}
                  /\ last' = [op |-> "toggle", id |-> entry.path,
                              result |-> "collapsed", index |-> i,
                              enumerated |-> FALSE]
                  /\ UNCHANGED entries
             ELSE IF toggleLoads(entry)
             THEN /\ ok => CanEnumerate(disk, entry.handle)
                  /\ IF ok
                     THEN /\ entries' =
                               [entries EXCEPT
                                  ![i].children =
                                     ChildList(readDirectoryLevel(
                                       disk, entry.handle, entry.path)),
                                  ![i].childrenLoaded = TRUE]
                          /\ expanded' = expanded \cup {entry.path}
                     ELSE UNCHANGED << entries, expanded >>
                  /\ last' = [op |-> "toggle", id |-> entry.path,
                              result |-> IF ok THEN "loaded" ELSE "rejected",
                              index |-> i, enumerated |-> TRUE]
             ELSE /\ ok
                  /\ expanded' = expanded \cup {entry.path}
                  /\ last' = [op |-> "toggle", id |-> entry.path,
                              result |-> "expanded", index |-> i,
                              enumerated |-> FALSE]
                  /\ UNCHANGED entries
  /\ UNCHANGED << disk, rootHandle, storageVars, renderedCurrent,
                  gitignorePatterns, editorVars, tasks, initPc, hEdited,
                  hSynced, hIssued >>

\* ------------------------------------------------------------------ startup
PermissionStates == {"granted", "prompt", "denied", "throws"}

\* a restoration that returns the handle whatever the permission answers
loadLastOpenedFolderUnasked(persisted, queried, requested) ==
  IF getPersistedHandle(persisted) = NullHandle THEN NullHandle
  ELSE IF queried = "throws" THEN NullHandle
  ELSE getPersistedHandle(persisted)

\* FileSystem.loadLastOpenedFolder: the restored handle, or null. queried and
\* requested are the outcomes of queryPermission and requestPermission.
loadLastOpenedFolder(persisted, queried, requested) ==
  IF getPersistedHandle(persisted) = NullHandle THEN NullHandle
  ELSE IF queried = "throws" THEN NullHandle
  ELSE IF queried = "granted" THEN getPersistedHandle(persisted)
  ELSE IF requested = "granted" THEN getPersistedHandle(persisted)
  ELSE NullHandle

\* init: fileTree.restoreLastFolder(); a rejected refresh rejects init.
\* A permission call that is not reached has the outcome "notCalled".
InitRestoreLastFolder ==
  /\ UNCHANGED steps
  /\ initPc = "restoreLastFolder"
  /\ \E queried \in PermissionStates \cup {"notCalled"},
        requested \in PermissionStates \cup {"notCalled"}, ok \in BOOLEAN :
       LET handle == loadLastOpenedFolder(lastFolderHandle, queried, requested)
       IN /\ queried = "notCalled"
               <=> getPersistedHandle(lastFolderHandle) = NullHandle
          /\ requested = "notCalled"
               <=> queried \in {"notCalled", "granted", "throws"}
          /\ IF handle = NullHandle
             THEN /\ ok
                  /\ initPc' = "restoreSession"
                  /\ last' = [op |-> "restoreLastFolder", id |-> NullStr,
                              result |-> "none", queried |-> queried,
                              requested |-> requested, returned |-> handle]
                  /\ UNCHANGED << rootHandle, treeVars >>
             ELSE /\ ok => CanEnumerate(disk, handle)
                  /\ rootHandle' = handle
                  /\ gitignorePatterns' = loadGitignore(disk, handle)
                  /\ refresh(disk, handle, ok)
                  /\ initPc' = IF ok THEN "restoreSession" ELSE "failed"
                  /\ last' = [op |-> "restoreLastFolder",
                              id |-> <<handle.root>>,
                              result |-> IF ok THEN "restored" ELSE "rejected",
                              queried |-> queried, requested |-> requested,
                              returned |-> handle]
  /\ UNCHANGED << disk, storageVars, editorVars, tasks, hEdited, hSynced,
                  hIssued >>

\* CodeEditor.findFileByPath: walk the components of targetPath
RECURSIVE FindFrom(_, _, _, _)
FindFrom(d, currentHandle, parts, i) ==
  IF i > Len(parts) THEN [ok |-> FALSE, handle |-> NullHandle]
  ELSE IF i = Len(parts) THEN GetFileHandle(d, currentHandle, parts[i])
  ELSE LET next == GetDirectoryHandle(d, currentHandle, parts[i])
       IN IF next.ok THEN FindFrom(d, next.handle, parts, i + 1)
          ELSE [ok |-> FALSE, handle |-> NullHandle]

findFileByPath(d, dirHandle, targetPath) ==
  FindFrom(d, dirHandle, Split(targetPath), 1)

\* init: restoreSession() up to the await of its openFile call
InitRestoreSession ==
  /\ UNCHANGED steps
  /\ initPc = "restoreSession"
  /\ \E t \in Slots : tasks[t].op = "idle"
  /\ LET path == editorSession.currentFilePath
         found == findFileByPath(disk, rootHandle, path)
     IN IF editorSession = NoSession \/ path = NullStr
        THEN /\ initPc' = "done"
             /\ last' = Did("restoreSession", NullStr, "noSession")
             /\ UNCHANGED << tasks, hIssued >>
        ELSE IF rootHandle = NullHandle
        THEN /\ initPc' = "done"
             /\ last' = Did("restoreSession", path, "noRoot")
             /\ UNCHANGED << tasks, hIssued >>
        ELSE IF ~found.ok
        THEN /\ initPc' = "done"
             /\ last' = Did("restoreSession", path, "notFound")
             /\ UNCHANGED << tasks, hIssued >>
        ELSE /\ openFileCall(found.handle, path, "restore")
             /\ hIssued' = Issued(found.handle, path)
             /\ initPc' = "awaitOpen"
             /\ last' = Did("restoreSession", path, "called")
  /\ UNCHANGED << disk, rootHandle, storageVars, treeVars, editorVars,
                  hEdited, hSynced >>

\* the page is reloaded: the constructors run again, the stores persist
Restart(serial) ==
  /\ steps' = steps + 1
  /\ MayAct(serial)
  /\ rootHandle' = NullHandle
  /\ entries' = << >>
  /\ expanded' = {}
  /\ renderedCurrent' = NullHandle
  /\ gitignorePatterns' = << >>
  /\ openTabs' = << >>
  /\ activeTabId' = NullStr
  /\ currentFileHandle' = NullHandle
  /\ currentFileName' = NoFileOpen
  /\ dirty' = FALSE
  /\ view' = << >>
  /\ tasks' = [t \in Slots |-> IdleTask]
  /\ initPc' = "restoreLastFolder"
  /\ hEdited' = {}
  /\ hSynced' = << >>
  /\ hIssued' = NoRequest
  /\ last' = Did("restart", NullStr, "reloaded")
  /\ UNCHANGED << disk, storageVars >>

\* ------------------------------------------------------------ specification
InitDisk ==
  [loc \in Locations |->
     CASE loc = <<"r1">> -> DirEntry
       [] loc = <<"r1", NameA>> -> FileEntry(<<"x">>)
       [] loc = <<"r1", NameB>> -> FileEntry(<< >>)
       [] loc = <<"r1", NameD>> -> DirEntry
       [] loc = <<"r1", NameD, NameA>> -> FileEntry(<<"x">>)
       [] loc = <<"r2">> -> DirEntry
       [] loc = <<"r2", NameA>> -> FileEntry(<< >>)
       [] OTHER -> NoEntry]

Init ==
  /\ disk = InitDisk
  /\ rootHandle = NullHandle
  /\ lastFolderHandle = NullHandle
  /\ editorSession = NoSession
  /\ recentFiles = << >>
  /\ entries = << >>
  /\ expanded = {}
  /\ renderedCurrent = NullHandle
  /\ gitignorePatterns = << >>
  /\ openTabs = << >>
  /\ activeTabId = NullStr
  /\ currentFileHandle = NullHandle
  /\ currentFileName = NoFileOpen
  /\ dirty = FALSE
  /\ view = << >>
  /\ tasks = [t \in Slots |-> IdleTask]
  /\ initPc = "restoreLastFolder"
  /\ steps = 0
  /\ hEdited = {}
  /\ hSynced = << >>
  /\ hIssued = NoRequest
  /\ last = Did("construct", NullStr, "constructed")

\* handlers run to completion one after another
Next ==
  \/ InitRestoreLastFolder
  \/ InitRestoreSession
  \/ Restart(TRUE)
  \/ openFolder(TRUE)
  \/ treeDeleteEntry(TRUE)
  \/ TreeClickFile(TRUE)
  \/ QuickOpenFile(TRUE)
  \/ \E t \in Slots : openFileGotFile(t)
  \/ \E t \in Slots : openFileGotText(t)
  \/ saveCurrentFileCall(TRUE)
  \/ \E t \in Slots : saveStreamStep(t)
  \/ \E t \in Slots : saveClosed(t)
  \/ Edit(TRUE)
  \/ TabClick(TRUE)
  \/ CloseTabClick(TRUE)

Spec == Init /\ [][Next]_vars

\* handlers interleave at their awaits
NextAsync ==
  \/ InitRestoreLastFolder
  \/ InitRestoreSession
  \/ Restart(FALSE)
  \/ openFolder(FALSE)
  \/ treeDeleteEntry(FALSE)
  \/ TreeClickFile(FALSE)
  \/ QuickOpenFile(FALSE)
  \/ \E t \in Slots : openFileGotFile(t)
  \/ \E t \in Slots : openFileGotText(t)
  \/ saveCurrentFileCall(FALSE)
  \/ \E t \in Slots : saveStreamStep(t)
  \/ \E t \in Slots : saveClosed(t)
  \/ Edit(FALSE)
  \/ TabClick(FALSE)
  \/ CloseTabClick(FALSE)

SpecAsync == Init /\ [][NextAsync]_vars

\* the operations on the browse tree have a budget of their own
TreeBudget == steps < MaxTreeSteps

\* the browse tree on its own: no document is opened
NextTree ==
  /\ TreeBudget
  /\ \/ InitRestoreLastFolder
     \/ InitRestoreSession
     \/ openFolder(TRUE)
     \/ refreshClick(TRUE)
     \/ toggleFolder(TRUE)
     \/ treeDeleteEntry(TRUE)
     \/ treeRenameEntry(TRUE)
     \/ createNewFile(TRUE)
     \/ createNewFolder(TRUE)

SpecTree == Init /\ [][NextTree]_vars

\* FileTree.renameEntry applied to entries of both kinds
NextRename ==
  /\ TreeBudget
  /\ \/ InitRestoreLastFolder
     \/ InitRestoreSession
     \/ openFolder(TRUE)
     \/ toggleFolder(TRUE)
     \/ fileTreeRenameEntry(TRUE, TreeItems)

SpecRename == Init /\ [][NextRename]_vars

\* ------------------------------------------- the ignore filter on its own
StarLog == <<"*", ".", "l", "o", "g">>
KeepLog == <<"k", "e", "e", "p", ".", "l", "o", "g">>
DebugLog == <<"d", "e", "b", "u", "g", ".", "l", "o", "g">>
PathDA == <<"d", "/", "a">>

\* texts of the ignore file
GitignoreTexts ==
  { StarLog \o <<Newline, "!">> \o KeepLog,
    <<"d", "/">>,
    <<"d", "/", Newline, "!">> \o PathDA,
    <<"d", "/", Newline, "!", "a">>,
    <<"a">>,
    <<"/", "a">>,
    <<"#", "x", Newline, Newline, " ", "a", " ", Newline, "!", " ", "a">>,
    <<"!", "a", Newline, "a">>,
    <<"*">> }

\* the paths matchesGitignore is asked about
MatchPaths ==
  { KeepLog, DebugLog, NameA, NameB, NameD, PathDA, <<".", "/", "a">>,
    <<"d", "/">> }

\* the folder r1 with an ignore file of the given text
DiskWithGitignore(text) ==
  [InitDisk EXCEPT ![<<"r1", GitignoreName>>] = FileEntry(text)]

InitIgnore ==
  /\ disk \in {InitDisk} \cup { DiskWithGitignore(t) : t \in GitignoreTexts }
  /\ rootHandle \in {NullHandle, RootDir("r1")}
  /\ lastFolderHandle = NullHandle
  /\ editorSession = NoSession
  /\ recentFiles = << >>
  /\ entries = << >>
  /\ expanded = {}
  /\ renderedCurrent = NullHandle
  /\ gitignorePatterns = << >>
  /\ openTabs = << >>
  /\ activeTabId = NullStr
  /\ currentFileHandle = NullHandle
  /\ currentFileName = NoFileOpen
  /\ dirty = FALSE
  /\ view = << >>
  /\ tasks = [t \in Slots |-> IdleTask]
  /\ initPc = "done"
  /\ steps = 0
  /\ hEdited = {}
  /\ hSynced = << >>
  /\ hIssued = NoRequest
  /\ last = Did("construct", NullStr, "constructed")

\* fileTree.loadGitignore(rootHandle)
LoadGitignore ==
  /\ rootHandle # NullHandle
  /\ gitignorePatterns' = loadGitignore(disk, rootHandle)
  /\ last' = Did("loadGitignore", NullStr, "loaded")
  /\ UNCHANGED << disk, rootHandle, storageVars, entries, expanded,
                  renderedCurrent, editorVars, tasks, initPc, steps, hEdited,
                  hSynced, hIssued >>

\* fileTree.matchesGitignore(path, isDirectory) with the loaded rules
EvalMatchesGitignore ==
  /\ \E path \in MatchPaths, isDirectory \in BOOLEAN :
       last' = [op |-> "matchesGitignore", path |-> path,
                isDirectory |-> isDirectory,
                result |-> matchesGitignore(gitignorePatterns, path,
                                            isDirectory)]
  /\ UNCHANGED << disk, rootHandle, storageVars, treeVars, editorVars, tasks,
                  initPc, steps, hEdited, hSynced, hIssued >>

\* fileTree.getAllFiles()
EvalGetAllFiles ==
  /\ rootHandle # NullHandle => CanEnumerate(disk, rootHandle)
  /\ LET all == getAllFiles(disk, rootHandle, gitignorePatterns)
     IN /\ gitignorePatterns' = all.rules
        /\ last' = [op |-> "getAllFiles", result |-> all.files]
  /\ UNCHANGED << disk, rootHandle, storageVars, entries, expanded,
                  renderedCurrent, editorVars, tasks, initPc, steps, hEdited,
                  hSynced, hIssued >>

NextIgnore ==
  \/ LoadGitignore
  \/ EvalMatchesGitignore
  \/ EvalGetAllFiles

SpecIgnore == InitIgnore /\ [][NextIgnore]_vars

\* the patterns and the normalized paths ruleMatchesPath is applied to
PatternChars == {"a", "/", "*", "?"}

RulePatterns == UNION { [1..n -> PatternChars] : n \in 1..MaxPatternLen }

RulePaths ==
  { NameA, NameB, <<"a", "a">>, PathDA, <<"a", "/", "a">>, <<"a", Newline>> }

\* normalizedPath.split('/').pop()
Basename(normalizedPath) ==
  Split(normalizedPath)[Len(Split(normalizedPath))]

\* fileTree.ruleMatchesPath as matchesGitignore calls it, applied once
EvalRuleMatchesPath ==
  /\ last.op # "ruleMatchesPath"
  /\ \E pattern \in RulePatterns, path \in RulePaths, isDirectory \in BOOLEAN :
       last' = [op |-> "ruleMatchesPath", pattern |-> pattern, path |-> path,
                isDirectory |-> isDirectory,
                result |-> ruleMatchesPath(pattern, path, Basename(path),
                                           isDirectory)]
  /\ UNCHANGED << disk, rootHandle, storageVars, treeVars, editorVars, tasks,
                  initPc, steps, hEdited, hSynced, hIssued >>

NextRule == EvalRuleMatchesPath

SpecRule == Init /\ [][NextRule]_vars

\* ------------------------------------------------------------------ claims
TabIds == [i \in 1..Len(openTabs) |-> openTabs[i].id]

\* C1: when open-file, activate-tab and close-tab run one after another, no
\* two tabs of the tab list have the same id, and the id of a tab is the path
\* it was opened with.
C1_UniqueTabIds ==
  \A i, j \in 1..Len(openTabs) :
    /\ i # j => openTabs[i].id # openTabs[j].id
    /\ openTabs[i].id = openTabs[i].path

\* three tabs are open and a path that was already open has been opened again
C1_Witness ==
  /\ Len(openTabs) = 3
  /\ last.op = "openFile" /\ last.result = "existing"

C3_DirtyIffEdited ==
  /\ \A i \in 1..Len(openTabs) :
       openTabs[i].dirty <=> openTabs[i].obj \in hEdited
  /\ (last.op = "openFile" /\ last.result = "new")
       => ~openTabs[Len(openTabs)].dirty

\* an edited tab has just been saved while another edited tab stays dirty
C3_Witness ==
  /\ last.op = "save" /\ last.result = "saved"
  /\ \E i, j \in 1..Len(openTabs) :
       /\ openTabs[i].id = last.id /\ ~openTabs[i].dirty
       /\ openTabs[j].dirty

\* C4: a save whose createWritable, write or close is rejected changes no
\* tab's dirty flag or buffer, writes nothing, and ends as a rejection for
\* its caller; a save ends in no other way than written or rejected.
C4_FailedSaveKeepsDirty ==
  [][/\ (last'.op = "save" /\ last'.result = "rejected")
          => /\ openTabs' = openTabs
             /\ dirty' = dirty
             /\ view' = view
             /\ activeTabId' = activeTabId
             /\ disk' = disk
     /\ \A t \in Slots :
          (tasks[t].op = "save" /\ tasks'[t].op = "idle"
             /\ last'.op # "restart")
            => last'.op = "save" /\ last'.result \in {"saved", "rejected"}]_vars

\* the save of a dirty tab has been rejected
C4_Witness ==
  /\ last.op = "save" /\ last.result = "rejected"
  /\ dirty
  /\ \E i \in 1..Len(openTabs) :
       openTabs[i].id = activeTabId /\ openTabs[i].dirty

\* C5: a successful save writes the buffer of the tab that was active when
\* it was called to that tab's file and to no other file; a save with no
\* active tab writes nothing and changes nothing.
C5_SaveWritesActiveBuffer ==
  [][/\ (last'.op = "save" /\ last'.result = "saved")
          => LET a == getActiveTab(Editor)
             IN /\ a # 0
                /\ disk' = [disk EXCEPT ![Loc(openTabs[a].handle)] =
                              FileEntry(openTabs[a].state)]
     /\ (last'.op = "save" /\ last'.result = "noTab")
          => UNCHANGED << disk, rootHandle, storageVars, treeVars, editorVars,
                          tasks, initPc >>]_vars

\* with two tabs open, the edited text of the active one has reached its file
C5_Witness ==
  /\ last.op = "save" /\ last.result = "saved"
  /\ Len(openTabs) = 2
  /\ \E i \in 1..Len(openTabs) :
       /\ openTabs[i].id = activeTabId
       /\ disk[Loc(openTabs[i].handle)] = FileEntry(view)
       /\ disk[Loc(openTabs[i].handle)] # InitDisk[Loc(openTabs[i].handle)]

\* C6: in every state, also when handlers interleave, a tab that is not
\* dirty holds the text last read from or written to its file.
C6_CleanMeansSynced ==
  \A i \in 1..Len(openTabs) :
    ~openTabs[i].dirty => openTabs[i].state = hSynced[openTabs[i].obj]

\* C7: closing the active tab while other tabs are open activates its left
\* neighbour, or the new first tab when it was the first.
C7_CloseActivatesLeftNeighbour ==
  [][(last'.op = "closeTab" /\ last'.result = "active")
       => LET i == FindIndex(openTabs, last'.id)
          IN /\ activeTabId = last'.id
             /\ openTabs' = RemoveAt(openTabs, i)
             /\ activeTabId' = IF i >= 2 THEN openTabs[i - 1].id
                               ELSE openTabs[2].id]_vars

\* of the tabs a, b, d/a the active tab b has been closed; a is active
C7_Witness ==
  /\ last = Did("closeTab", NameB, "active")
  /\ TabIds = <<NameA, PathDA>>
  /\ activeTabId = NameA

\* C8: closing the only tab leaves no tab, no active tab, no current file
\* handle, an empty clean editing surface and no session record.
C8_LastTabClosed ==
  (last.op = "closeTab" /\ last.result = "last")
    => /\ openTabs = << >>
       /\ activeTabId = NullStr
       /\ currentFileHandle = NullHandle
       /\ view = << >>
       /\ dirty = FALSE
       /\ editorSession = NoSession

\* the only tab, which had been opened from the folder, has been closed
C8_Witness ==
  /\ last.op = "closeTab" /\ last.result = "last"
  /\ recentFiles # << >>
  /\ rootHandle # NullHandle

\* C9: whenever another tab becomes the active tab, the session record names
\* the path of that tab.
C9_SessionFollowsActiveTab ==
  [][(activeTabId' # activeTabId /\ activeTabId' # NullStr)
       => LET i == FindIndex(openTabs', activeTabId')
          IN editorSession'.currentFilePath = openTabs'[i].path]_vars

\* the session names a path that cannot be resolved against the root
SessionUnresolved ==
  /\ editorSession.currentFilePath # NullStr
  /\ \/ rootHandle = NullHandle
     \/ ~findFileByPath(disk, rootHandle, editorSession.currentFilePath).ok

\* C10: a startup whose session path cannot be resolved against the restored
\* root returns from init with no tab, no active tab and no rejection, and
\* the session is restored only after the folder restoration has returned.
C10_StartupSurvives ==
  /\ (last.op = "restoreLastFolder" /\ SessionUnresolved)
       => initPc = "restoreSession"
  /\ (last.op = "restoreSession" /\ last.result \in {"noRoot", "notFound"})
       => /\ initPc = "done"
          /\ openTabs = << >>
          /\ activeTabId = NullStr

\* a permission outcome with which loadLastOpenedFolder restores the folder
PermissionGranted ==
  \/ last.queried = "granted"
  \/ last.queried \in {"prompt", "denied"} /\ last.requested = "granted"

\* C11: loadLastOpenedFolder makes the persisted handle the root and returns
\* it exactly when a handle is persisted and the permission query, or the
\* request made when the query did not grant, answers 'granted'; otherwise
\* (nothing persisted, not granted, a permission call throws) it returns null
\* without throwing and the root handle is unchanged. The request is made
\* only when the query answered something other than 'granted'.
C11_RestoreNeedsPermission ==
  [][last'.op = "restoreLastFolder"
       => /\ (lastFolderHandle # NullHandle /\ PermissionGranted')
               => /\ last'.returned = lastFolderHandle
                  /\ rootHandle' = lastFolderHandle
          /\ ~(lastFolderHandle # NullHandle /\ PermissionGranted')
               => /\ last'.returned = NullHandle
                  /\ rootHandle' = rootHandle
                  /\ initPc' = "restoreSession"
          /\ last'.requested # "notCalled"
               <=> last'.queried \in {"prompt", "denied"}]_vars

\* the folder has been restored after the query answered 'prompt' and the
\* request answered 'granted'
C11_Witness ==
  /\ last.op = "restoreLastFolder"
  /\ last.queried = "prompt" /\ last.requested = "granted"
  /\ rootHandle = lastFolderHandle /\ rootHandle # NullHandle

\* C12: when the user cancels the directory picker, no error is reported and
\* the root handle, the persisted folder handle, the cached tree entries, the
\* ignore rules and the session record are unchanged.
C12_CancelChangesNothing ==
  [][(last'.op = "openFolder" /\ last'.result = "cancelled")
       => /\ ~last'.logged
          /\ UNCHANGED << rootHandle, lastFolderHandle, entries,
                          gitignorePatterns, editorSession >>]_vars

\* the picker has been cancelled while a folder, its tree and a session exist
C12_Witness ==
  /\ last.op = "openFolder" /\ last.result = "cancelled"
  /\ rootHandle # NullHandle
  /\ lastFolderHandle # NullHandle
  /\ entries # << >>
  /\ editorSession # NoSession

LogRules ==
  << [pattern |-> StarLog, negated |-> FALSE],
     [pattern |-> KeepLog, negated |-> TRUE] >>

\* the rules that match a path, by their position in the file
MatchingRules(rules, filePath, isDirectory) ==
  LET normalizedPath == StripTrail(StripLead(filePath))
  IN { i \in 1..Len(rules) :
         ruleMatchesPath(rules[i].pattern, normalizedPath,
                         Basename(normalizedPath), isDirectory) }

\* C14: matchesGitignore returns the verdict of the last rule, in file order,
\* that matches the path: excluded when that rule is not negated, included
\* when it is; included when no rule matches. With the rules
\* [*.log, !keep.log], keep.log is included and debug.log is excluded.
C14_LastMatchingRuleWins ==
  last.op = "matchesGitignore"
    => LET hits == MatchingRules(gitignorePatterns, last.path,
                                 last.isDirectory)
           latest == CHOOSE i \in hits : \A j \in hits : j <= i
       IN /\ last.result = (hits # {} /\ ~gitignorePatterns[latest].negated)
          /\ (gitignorePatterns = LogRules /\ last.path = KeepLog)
               => ~last.result
          /\ (gitignorePatterns = LogRules /\ last.path = DebugLog)
               => last.result

\* with the rules [*.log, !keep.log] loaded, keep.log has been found included
C14_Witness ==
  /\ last.op = "matchesGitignore"
  /\ gitignorePatterns = LogRules
  /\ last.path = KeepLog
  /\ ~last.result

\* the files below the root, and the directories above a location
FilesUnder(d, root) ==
  { loc \in Locations :
      Len(loc) > 1 /\ loc[1] = root.root /\ d[loc].kind = "file" }

PathOfLoc(loc) == PathOfSegs(Tail(loc))

AncestorPaths(loc) ==
  { PathOfSegs(SubSeq(loc, 2, k)) : k \in 2..(Len(loc) - 1) }

\* C15: getAllFiles returns exactly the files under the root that the filter
\* does not exclude as files and none of whose ancestor directories the
\* filter excludes as a directory, each once; a file below an excluded
\* directory is omitted even when a later negated rule matches the file.
C15_AllFilesPrunesDirectories ==
  last.op = "getAllFiles"
    => LET found == { last.result[i].path : i \in 1..Len(last.result) }
       IN /\ found =
               { PathOfLoc(loc) : loc \in
                   { l \in FilesUnder(disk, rootHandle) :
                       /\ ~matchesGitignore(gitignorePatterns, PathOfLoc(l),
                                            FALSE)
                       /\ \A dir \in AncestorPaths(l) :
                            ~matchesGitignore(gitignorePatterns, dir, TRUE) } }
          /\ Cardinality(found) = Len(last.result)

\* with the rules [d/, !d/a] the file d/a is omitted and the file a is listed
C15_Witness ==
  /\ last.op = "getAllFiles"
  /\ gitignorePatterns = << [pattern |-> <<"d", "/">>, negated |-> FALSE],
                            [pattern |-> PathDA, negated |-> TRUE] >>
  /\ \E i \in 1..Len(last.result) : last.result[i].path = NameA
  /\ \A i \in 1..Len(last.result) : last.result[i].path # PathDA

\* a glob matched against a whole string from position pos on: '*' takes any
\* run of characters, '?' exactly one, any other character itself; lineEnds
\* tells whether '*' and '?' take line terminators
RECURSIVE GlobFrom(_, _, _, _, _)
GlobFrom(p, str, k, pos, lineEnds) ==
  IF k > Len(p) THEN pos = Len(str)
  ELSE IF p[k] = "*"
  THEN \E n \in pos..Len(str) :
         /\ \A j \in (pos + 1)..n : lineEnds \/ str[j] # Newline
         /\ GlobFrom(p, str, k + 1, n, lineEnds)
  ELSE /\ pos < Len(str)
       /\ IF p[k] = "?" THEN lineEnds \/ str[pos + 1] # Newline
          ELSE str[pos + 1] = p[k]
       /\ GlobFrom(p, str, k + 1, pos + 1, lineEnds)

\* the reference for ruleMatchesPath; slashPrefix tells whether an unanchored
\* pattern containing '/' is also tried on the path preceded by '/'
GlobRule(pattern, path, isDirectory, lineEnds, slashPrefix) ==
  LET directoryOnly == pattern[Len(pattern)] = "/"
      body == IF directoryOnly THEN SubSeq(pattern, 1, Len(pattern) - 1)
              ELSE pattern
      leading == body # << >> /\ body[1] = "/"
      glob == IF leading THEN Tail(body) ELSE body
  IN /\ ~(directoryOnly /\ ~isDirectory)
     /\ IF ~leading /\ ~Includes(glob, "/")
        THEN GlobFrom(glob, Basename(path), 1, 0, lineEnds)
        ELSE \/ GlobFrom(glob, path, 1, 0, lineEnds)
             \/ /\ slashPrefix /\ ~leading
                /\ GlobFrom(glob, <<"/">> \o path, 1, 0, lineEnds)

\* C16 as stated: a pattern ending in '/' never matches a file; otherwise a
\* pattern without '/' matches iff it matches the basename, and a pattern with
\* a leading '/' or containing '/' matches iff it matches the whole
\* root-relative path; '*' is any run of characters, '?' exactly one
\* character, every other character itself.
C16_RuleMatchesReference ==
  last.op = "ruleMatchesPath"
    => last.result = GlobRule(last.pattern, last.path, last.isDirectory,
                              TRUE, FALSE)

\* C16 amended: as stated, except that a pattern containing '/' without a
\* leading '/' matches iff it matches the root-relative path or that path
\* preceded by '/', and '*' and '?' do not stand for a line terminator.
C16_RuleMatchesAmended ==
  last.op = "ruleMatchesPath"
    => last.result = GlobRule(last.pattern, last.path, last.isDirectory,
                              FALSE, TRUE)

\* the pattern */a has matched the top-level path a
C16_Witness ==
  /\ last.op = "ruleMatchesPath"
  /\ last.pattern = <<"*", "/", "a">>
  /\ last.path = NameA
  /\ last.result

\* a step of toggleFolder
ToggleStep == steps' # steps /\ last'.op = "toggle"

\* every entry of the cache is unexpanded: no children list is held
AllUnloaded(es) ==
  \A i \in 1..Len(es) : ~es[i].childrenLoaded /\ es[i].children = NullChildren

CachedEntries ==
  { entries[i] : i \in 1..Len(entries) }
    \cup UNION { { entries[i].children.items[j] :
                     j \in 1..Len(entries[i].children.items) } :
                   i \in 1..Len(entries) }

\* a list of entries in the order of readDirectory, all children of one
\* directory and all unexpanded
LevelOf(list, parentHandle, parentPath) ==
  /\ \A i \in 1..Len(list), j \in 1..Len(list) :
       i < j => EntryBefore(list[i], list[j])
  /\ \A i \in 1..Len(list) :
       /\ list[i].parentHandle = parentHandle
       /\ list[i].handle.segs = Append(parentHandle.segs, list[i].name)
       /\ list[i].path = IF parentPath = << >> THEN list[i].name
                         ELSE parentPath \o <<"/">> \o list[i].name

\* C18: in every reachable state an entry with childrenLoaded true holds a
\* non-null list of children, ordered directories before files and then by
\* name, which right after the read is the directory's immediate content; an
\* entry that is not loaded has children null, as have all entries a read
\* produces; the path of an entry is its parent's path, '/' and its name, the
\* name alone at the top level; and no two entries of the cache share a path.
C18_TreeEntriesWellFormed ==
  /\ \E r \in Roots : LevelOf(entries, RootDir(r), << >>)
  /\ \A i \in 1..Len(entries) :
       LET e == entries[i]
       IN /\ e.childrenLoaded <=> ~e.children.isNull
          /\ e.childrenLoaded
               => /\ e.kind = "directory"
                  /\ LevelOf(e.children.items, e.handle, e.path)
                  /\ AllUnloaded(e.children.items)
  /\ \A a \in CachedEntries, b \in CachedEntries : a.path = b.path => a = b
  /\ (last.op = "toggle" /\ last.result = "loaded")
       => LET e == entries[last.index]
          IN /\ e.childrenLoaded
             /\ { <<c.name, c.kind>> : c \in
                    { e.children.items[j] :
                        j \in 1..Len(e.children.items) } }
                  = { <<n, EntryAt(disk, Loc(e.handle) \o <<n>>).kind>> :
                        n \in ChildNames(disk, e.handle) }

\* the children of a folder that holds a file named like one beside the
\* folder have been read
C18_Witness ==
  \E i \in 1..Len(entries), k \in 1..Len(entries) :
    /\ entries[i].childrenLoaded
    /\ Len(entries[i].children.items) = 2
    /\ entries[k].kind = "file"
    /\ entries[i].children.items[1].name = entries[k].name
    /\ entries[i].children.items[1].path # entries[k].path

\* a creation, renaming or deletion that was confirmed and whose handler
\* returned
MutationStep ==
  /\ steps' # steps
  /\ last'.op \in {"createFile", "createFolder", "rename", "delete"}
  /\ last'.result \notin {"declined", "rejected"}

C19_WitnessFailed ==
  /\ last.op = "createFile"
  /\ last.result = "failed"
  /\ entries # << >>

\* a step of FileTree.renameEntry in which FileSystem.renameEntry was called
RenameStep ==
  steps' # steps /\ last'.op = "rename" /\ last'.result # "declined"

\* the locations at and beneath a location
Beneath(loc) ==
  { l \in Locations : Len(l) >= Len(loc) /\ SubSeq(l, 1, Len(loc)) = loc }

\* the entry at old and everything beneath it is in d2 as it is in d
Intact(d, d2, old) == \A l \in Beneath(old) : d2[l] = d[l]

\* d2 holds under new a folder for every folder and a file of the same
\* content for every file that d holds at and beneath old
Copied(d, d2, old, new) ==
  \A l \in Beneath(old) :
    d[l].kind # "none"
      => LET to == new \o SubSeq(l, Len(old) + 1, Len(l))
         IN /\ to \in Locations
            /\ d2[to].kind = d[l].kind
            /\ d[l].kind = "file" => d2[to].content = d[l].content

\* the names listed at the top level of the tree
Listed(es) == { es[i].name : i \in 1..Len(es) }

\* what C20 says of the file system and of the value returned: the original
\* is removed only in a step that has created the new entry and copied every
\* file beneath it; a rename that fails returns false, leaves the original
\* and all that is beneath it as it was, changes nothing outside the new
\* name, and leaves in place what it created there.
RenameCopiesThenRemoves ==
  LET e == last'.entry
      old == Loc(e.handle)
      new == Loc(e.parentHandle) \o <<last'.newName>>
  IN /\ last'.renamed \in BOOLEAN
     /\ last'.renamed
          => /\ disk[old].kind = e.kind
             /\ last'.failAt = "none"
             /\ Copied(disk, disk', old, new)
             /\ \A l \in Beneath(old) : disk'[l].kind = "none"
     /\ (disk[old].kind # "none" /\ disk'[old].kind = "none")
          => last'.renamed /\ Copied(disk, disk', old, new)
     /\ ~last'.renamed
          => /\ Intact(disk, disk', old)
             /\ \A l \in Locations \ Beneath(new) : disk'[l] = disk[l]
             /\ \A l \in Beneath(new) :
                  disk[l].kind # "none" => disk'[l].kind = disk[l].kind
             /\ (last'.failAt = "removeEntry" /\ disk[old].kind = e.kind
                   /\ new \in Locations /\ disk[new].kind \in {"none", e.kind})
                  => Copied(disk, disk', old, new)

\* the rename has failed and the refresh after it has read the root
RenameFailedStep ==
  RenameStep /\ ~last'.renamed /\ last'.result = "failed"

\* C20 as stated: renameEntry removes the original only after the new entry
\* is created and every file beneath it copied; when a step before the
\* removal fails it returns false without throwing, the original is intact,
\* what was created under the new name stays, and the tree refresh that
\* follows lists both entries.
C20_RenameAsStated ==
  [][ /\ RenameStep => RenameCopiesThenRemoves
      /\ RenameFailedStep
           => {last'.entry.name, last'.newName} \subseteq Listed(entries')
    ]_vars

\* C20 amended: as stated, except for the refresh: for a child of the open
\* root folder whose rename failed, the refresh that has read the root lists
\* the original entry and lists the new name exactly when an entry of that
\* name exists, which is so whenever the failed rename had created it.
C20_RenameCopiesThenRemoves ==
  [][ /\ RenameStep => RenameCopiesThenRemoves
      /\ (RenameFailedStep /\ last'.entry.parentHandle = rootHandle
            /\ disk[Loc(last'.entry.handle)].kind # "none")
           => /\ last'.entry.name \in Listed(entries')
              /\ last'.newName \in Listed(entries')
                   <=> EntryAt(disk', Loc(rootHandle)
                                        \o <<last'.newName>>).kind # "none"
    ]_vars

\* the removal of a renamed folder was rejected after both its files were
\* copied: the tree lists the folder under both names
C20_Witness ==
  /\ last.op = "rename"
  /\ last.result = "failed"
  /\ last.failAt = "removeEntry"
  /\ last.entry.kind = "directory"
  /\ last.entry.name = NameD
  /\ last.newName = NameC
  /\ {NameD, NameC} \subseteq Listed(entries)
  /\ Copied(disk, disk, <<"r1", NameD>>, <<"r1", NameC>>)
  /\ Cardinality(ChildNames(disk, DirHandle("r1", <<NameD>>))) = 2

\* a folder with two files has been renamed
C20_WitnessRenamed ==
  /\ last.op = "rename"
  /\ last.result = "renamed"
  /\ last.entry.kind = "directory"
  /\ Cardinality(ChildNames(disk, DirHandle("r1", <<last.newName>>))) = 2

\* createNewFile has called FileSystem.createFile(rootHandle, n)
CreateFileStep(n) ==
  /\ steps' = steps + 1
  /\ last'.op = "createFile"
  /\ last'.id = n
  /\ rootHandle # NullHandle
  /\ Loc(rootHandle) \o <<n>> \in Locations

\* C21: createFile(parent, name) is create-if-absent: a file called name that
\* exists in parent has the same content after the call as before, and where
\* no entry of that name exists and a handle is returned an empty file has
\* been created.
C21_CreateIfAbsent ==
  [][ \A n \in PromptNames :
        CreateFileStep(n)
          => LET loc == Loc(rootHandle) \o <<n>>
             IN /\ disk[loc].kind = "file" => disk'[loc] = disk[loc]
                /\ (disk[loc].kind = "none" /\ last'.result = "created")
                     => disk'[loc] = FileEntry(<< >>)
    ]_vars

\* ------------------------------- the methods of FileSystem called directly
\* the budget of the direct calls
MaxFsSteps == 3

\* a try block that rethrows what it caught
TryRethrow(body, fallback) ==
  [thrown |-> ~body.done, value |-> body.value, disk |-> body.disk]

\* try { body } catch (err) { console.error(...); return fallback; }: body
\* is what the block did, done when no call inside it was rejected
TryCatch(body, fallback) ==
  [thrown |-> FALSE, value |-> IF body.done THEN body.value ELSE fallback,
   disk |-> body.disk]

\* entry.isSameEntry(targetHandle), or kind and name when that call throws
IsMatch(d, loc, targetHandle, sameOk) ==
  IF sameOk THEN loc = Loc(targetHandle) /\ d[loc].kind = targetHandle.kind
  ELSE /\ d[loc].kind = targetHandle.kind
       /\ loc[Len(loc)] = HandleName(targetHandle)

\* FileSystem.getParentHandle: the handles the walk from currentHandle may
\* return, over the orders in which values() may yield the children; none
\* stands for null
RECURSIVE getParentHandle(_, _, _, _)
getParentHandle(d, targetHandle, currentHandle, sameOk) ==
  IF currentHandle = NullHandle \/ ~CanEnumerate(d, currentHandle) THEN {}
  ELSE LET kids == ChildLocs(d, currentHandle)
           deeper == { l \in kids : /\ d[l].kind = "directory"
                                    /\ ~IsMatch(d, l, targetHandle, sameOk) }
       IN (IF \E l \in kids : IsMatch(d, l, targetHandle, sameOk)
           THEN {currentHandle} ELSE {})
          \cup UNION { getParentHandle(d, targetHandle,
                                       DirHandle(currentHandle.root, Tail(l)),
                                       sameOk) : l \in deeper }

\* parentHandle || await this.getParentHandle(handle)
ResolveParent(d, root, handle, parentHandle, sameOk) ==
  IF parentHandle # NullHandle THEN {parentHandle}
  ELSE IF getParentHandle(d, handle, root, sameOk) = {} THEN {NullHandle}
  ELSE getParentHandle(d, handle, root, sameOk)

\* FileSystem.createFile as its caller sees it
fsCreateFileCall(d, parentHandle, fileName, failAt) ==
  LET res == createFile(d, parentHandle, fileName, failAt)
  IN TryCatch([done |-> res.ok, value |-> "handle", disk |-> res.disk],
              "null")

\* FileSystem.createDirectory as its caller sees it
fsCreateDirectoryCall(d, parentHandle, dirName, failAt) ==
  LET res == createDirectory(d, parentHandle, dirName, failAt)
  IN TryCatch([done |-> res.ok, value |-> "handle", disk |-> res.disk],
              "null")

\* FileSystem.deleteEntry as its caller sees it; parent is the resolved parent
\* and walkOk tells whether the walk that resolved it was not rejected
fsDeleteEntryCall(d, handle, parent, walkOk, rmOk) ==
  LET res == deleteEntry(d, handle, parent, rmOk)
  IN TryCatch(IF ~walkOk THEN [done |-> FALSE, value |-> "false", disk |-> d]
              ELSE IF parent = NullHandle
              THEN [done |-> TRUE, value |-> "false", disk |-> d]
              ELSE [done |-> res.removed, value |-> "true",
                    disk |-> res.disk],
              "false")

\* FileSystem.renameEntry as its caller sees it
fsRenameEntryCall(d, handle, newName, parent, walkOk, order, k, failAt) ==
  LET res == renameEntry(d, handle, newName, parent, order, k, failAt)
  IN TryCatch(IF ~walkOk THEN [done |-> FALSE, value |-> "false", disk |-> d]
              ELSE IF parent = NullHandle
              THEN [done |-> TRUE, value |-> "false", disk |-> d]
              ELSE [done |-> res.renamed, value |-> "true",
                    disk |-> res.disk],
              "false")

\* the handles a caller may hold: of entries that exist, existed or never did
FsHandles ==
  { FileHandle("r1", <<NameA>>), FileHandle("r1", <<NameD, NameA>>),
    FileHandle("r1", <<NameC>>), FileHandle("r2", <<NameA>>),
    DirHandle("r1", <<NameD>>), DirHandle("r1", <<NameA>>) }

\* the directory a handle was obtained from
ParentOf(h) == DirHandle(h.root, SubSeq(h.segs, 1, Len(h.segs) - 1))

\* what a direct call did: the value returned, whether it threw, whether a
\* call inside it was rejected, the parent it worked on and whether that
\* parent was passed in
DidFs(op, handle, parent, given, res, rejected) ==
  [op |-> op, id |-> handle.segs, result |-> res.value, thrown |-> res.thrown,
   handle |-> handle, parent |-> parent, given |-> given,
   rejected |-> rejected]

FsUnchanged ==
  UNCHANGED << rootHandle, storageVars, treeVars, editorVars, tasks, initPc,
               hEdited, hSynced, hIssued >>

\* FileSystem.createFile(parentHandle, fileName)
fsCreateFile ==
  /\ rootHandle # NullHandle
  /\ steps' = steps + 1
  /\ \E fileName \in PromptNames, failAt \in CreateFailPoints :
       \E parentHandle \in {rootHandle, DirHandle(rootHandle.root, <<NameD>>)} :
         \E res \in {fsCreateFileCall(disk, parentHandle, fileName, failAt)} :
           /\ disk' = res.disk
           /\ last' = DidFs("fs.createFile",
                            FileHandle(parentHandle.root,
                                       Append(parentHandle.segs, fileName)),
                            parentHandle, TRUE, res, res.value = "null")
  /\ FsUnchanged

\* FileSystem.createDirectory(parentHandle, dirName)
fsCreateDirectory ==
  /\ rootHandle # NullHandle
  /\ steps' = steps + 1
  /\ \E dirName \in PromptNames, failAt \in MkdirFailPoints :
       \E res \in {fsCreateDirectoryCall(disk, rootHandle, dirName, failAt)} :
         /\ disk' = res.disk
         /\ last' = DidFs("fs.createDirectory",
                          DirHandle(rootHandle.root, <<dirName>>),
                          rootHandle, TRUE, res, res.value = "null")
  /\ FsUnchanged

\* FileSystem.deleteEntry(handle, parentHandle), parentHandle given or not
fsDeleteEntry ==
  /\ steps' = steps + 1
  /\ \E handle \in FsHandles, given \in BOOLEAN, sameOk \in BOOLEAN,
        walkOk \in BOOLEAN, rmOk \in BOOLEAN :
       /\ (given \/ ~walkOk) => sameOk
       /\ given => walkOk
       /\ \E parent \in ResolveParent(disk, rootHandle, handle,
                                      IF given THEN ParentOf(handle)
                                      ELSE NullHandle, sameOk) :
            /\ rmOk => /\ walkOk
                       /\ parent # NullHandle
                       /\ EntryAt(disk, Loc(parent)
                                          \o <<HandleName(handle)>>).kind
                            # "none"
            /\ \E res \in {fsDeleteEntryCall(disk, handle, parent, walkOk,
                                             rmOk)} :
                 /\ disk' = res.disk
                 /\ last' = DidFs("fs.deleteEntry", handle,
                                  IF walkOk THEN parent ELSE NullHandle,
                                  given, res,
                                  ~walkOk \/ (parent # NullHandle
                                                /\ res.value = "false"))
  /\ FsUnchanged

\* FileSystem.renameEntry(handle, newName, parentHandle) of a file
fsRenameEntry ==
  /\ steps' = steps + 1
  /\ \E handle \in { h \in FsHandles : h.kind = "file" },
        newName \in {NameB, NameC}, given \in BOOLEAN, sameOk \in BOOLEAN,
        walkOk \in BOOLEAN, failAt \in FileFailPoints :
       /\ (given \/ ~walkOk) => sameOk
       /\ given => walkOk
       /\ \E parent \in ResolveParent(disk, rootHandle, handle,
                                      IF given THEN ParentOf(handle)
                                      ELSE NullHandle, sameOk) :
            /\ (~walkOk \/ parent = NullHandle) => failAt = "none"
            /\ parent # NullHandle => Loc(parent) \o <<newName>> \in Locations
            /\ \E res \in {fsRenameEntryCall(disk, handle, newName, parent,
                                             walkOk, << >>, 1, failAt)} :
                 /\ disk' = res.disk
                 /\ last' = DidFs("fs.renameEntry", handle,
                                  IF walkOk THEN parent ELSE NullHandle,
                                  given, res,
                                  ~walkOk \/ (parent # NullHandle
                                                /\ res.value = "false"))
  /\ FsUnchanged

\* a folder is opened and the methods of FileSystem are called on it
NextFs ==
  /\ steps < MaxFsSteps
  /\ \/ InitRestoreLastFolder
     \/ InitRestoreSession
     \/ openFolder(TRUE)
     \/ fsCreateFile
     \/ fsCreateDirectory
     \/ fsDeleteEntry
     \/ fsRenameEntry

SpecFs == Init /\ [][NextFs]_vars

FsOps == {"fs.createFile", "fs.createDirectory", "fs.deleteEntry",
          "fs.renameEntry"}

\* a method of FileSystem has been called and has settled
FsStep == steps' = steps + 1 /\ last'.op \in FsOps

\* C22: createFile, createDirectory, deleteEntry and renameEntry never throw:
\* a call rejected inside them comes back as null (the create methods) or
\* false (deleteEntry, renameEntry); deleteEntry returns true only when the
\* parent's removeEntry has removed the entry, and returns false, leaving the
\* disk alone, when no parent handle is resolved for the target.
C22_FailureIsReturned ==
  [][ FsStep
        => /\ ~last'.thrown
           /\ last'.result
                \in IF last'.op \in {"fs.createFile", "fs.createDirectory"}
                    THEN {"handle", "null"} ELSE {"true", "false"}
           /\ last'.rejected => last'.result \in {"null", "false"}
           /\ (last'.op = "fs.deleteEntry" /\ last'.result = "true")
                => /\ last'.parent # NullHandle
                   /\ LET loc == Loc(last'.parent)
                                   \o <<HandleName(last'.handle)>>
                      IN /\ disk[loc].kind # "none"
                         /\ disk' = RemoveEntry(disk, loc)
           /\ (last'.op = "fs.deleteEntry" /\ last'.parent = NullHandle)
                => last'.result = "false" /\ disk' = disk
    ]_vars

\* the removeEntry of a deleteEntry was rejected and false came back
C22_Witness ==
  /\ last.op = "fs.deleteEntry"
  /\ last.parent # NullHandle
  /\ last.rejected
  /\ ~last.thrown
  /\ last.result = "false"
  /\ EntryAt(disk, Loc(last.handle)).kind = last.handle.kind

\* deleteEntry found no parent for its target and returned false
C22_WitnessNoParent ==
  /\ last.op = "fs.deleteEntry"
  /\ rootHandle # NullHandle
  /\ ~last.given
  /\ last.parent = NullHandle
  /\ ~last.rejected
  /\ last.result = "false"

\* deleteEntry resolved the parent by the walk and removed the entry
C22_WitnessWalked ==
  /\ last.op = "fs.deleteEntry"
  /\ last.result = "true"
  /\ ~last.given
  /\ Len(last.handle.segs) = 2
  /\ last.parent = ParentOf(last.handle)

\* the save in slot t has opened its stream and has not closed it
WriteInFlight(t) == tasks[t].op = "save" /\ tasks[t].pc \in {"write", "close"}

\* C23: at no time are two writes to the same file handle in flight: a save
\* requested while an earlier save of the same tab is pending does not start
\* a second write on that handle.
C23_OneWritePerHandle ==
  \A s, t \in Slots :
    (s # t /\ WriteInFlight(s) /\ WriteInFlight(t))
      => tasks[s].handle # tasks[t].handle

\* ------------------------------------------- enumerations that take time
\* FileTree.refresh up to its await of readDirectoryLevel(rootHandle, '')
refreshCall ==
  /\ MayStart(FALSE)
  /\ steps' = steps + 1
  /\ IF rootHandle = NullHandle
     THEN /\ refresh(disk, rootHandle, TRUE)
          /\ last' = Did("refresh", NullStr, "refreshed")
          /\ UNCHANGED tasks
     ELSE /\ tasks' = [tasks EXCEPT ![FreeSlot] =
                         [IdleTask EXCEPT !.op = "refresh",
                                          !.pc = "readDirectoryLevel",
                                          !.origin = "user",
                                          !.handle = rootHandle]]
          /\ last' = Did("refresh", NullStr, "called")
          /\ UNCHANGED << entries, expanded, renderedCurrent >>
  /\ UNCHANGED << disk, rootHandle, storageVars, gitignorePatterns,
                  editorVars, initPc, hEdited, hSynced, hIssued >>

\* the enumeration of refresh settles: the entries it read become the tree
refreshSettled(t) ==
  /\ UNCHANGED steps
  /\ tasks[t].op = "refresh"
  /\ \E ok \in BOOLEAN :
       /\ ok => CanEnumerate(disk, tasks[t].handle)
       /\ refresh(disk, tasks[t].handle, ok)
       /\ last' = Did("refresh", NullStr,
                      IF ok THEN "refreshed" ELSE "rejected")
  /\ tasks' = [tasks EXCEPT ![t] = IdleTask]
  /\ UNCHANGED << disk, rootHandle, storageVars, gitignorePatterns,
                  editorVars, initPc, hEdited, hSynced, hIssued >>

\* folders are opened while refreshes are under way
NextEnum ==
  \/ InitRestoreLastFolder
  \/ InitRestoreSession
  \/ openFolder(FALSE)
  \/ refreshCall
  \/ \E t \in Slots : refreshSettled(t)

SpecEnum == Init /\ [][NextEnum]_vars

\* an enumeration started on root has not settled
EnumerationPending(root) ==
  \E t \in Slots : tasks[t].op = "refresh" /\ tasks[t].handle = root

\* C24: the root handle is replaced only by openDirectory and
\* loadLastOpenedFolder, and never while a directory enumeration started on
\* the previous root is still pending.
C24_RootReplacedWhenIdle ==
  [][ rootHandle' # rootHandle
        => /\ last'.op \in {"openFolder", "restoreLastFolder"}
           /\ ~EnumerationPending(rootHandle)
    ]_vars

\* the first half of C24: only openDirectory and loadLastOpenedFolder assign
\* the root handle
C24_OnlyOpenAndRestoreAssign ==
  [][ rootHandle' # rootHandle
        => last'.op \in {"openFolder", "restoreLastFolder"} ]_vars

\* ------------------------------------------- a recent list that is full
\* twenty paths opened in earlier sessions, the file a of r1 the oldest
StoredRecent ==
  << <<"e">>, <<"f">>, <<"g">>, <<"h">>, <<"i">>, <<"j">>, <<"k">>, <<"l">>,
     <<"m">>, <<"n">>, <<"o">>, <<"p">>, <<"q">>, <<"r">>, <<"s">>, <<"t">>,
     <<"u">>, <<"v">>, <<"w">>, NameA >>

\* the lists chrome.storage may hold when the editor page is loaded: none,
\* one short of full, full
RecentSeeds ==
  { << >>, SubSeq(StoredRecent, 2, Len(StoredRecent)), StoredRecent }

InitRecent ==
  /\ disk = InitDisk
  /\ rootHandle = NullHandle
  /\ lastFolderHandle = NullHandle
  /\ editorSession = NoSession
  /\ recentFiles \in RecentSeeds
  /\ entries = << >>
  /\ expanded = {}
  /\ renderedCurrent = NullHandle
  /\ gitignorePatterns = << >>
  /\ openTabs = << >>
  /\ activeTabId = NullStr
  /\ currentFileHandle = NullHandle
  /\ currentFileName = NoFileOpen
  /\ dirty = FALSE
  /\ view = << >>
  /\ tasks = [t \in Slots |-> IdleTask]
  /\ initPc = "restoreLastFolder"
  /\ steps = 0
  /\ hEdited = {}
  /\ hSynced = << >>
  /\ hIssued = NoRequest
  /\ last = Did("construct", NullStr, "constructed")

\* files are opened, reopened and closed, one handler after another
NextRecent ==
  \/ InitRestoreLastFolder
  \/ InitRestoreSession
  \/ openFolder(TRUE)
  \/ QuickOpenFile(TRUE)
  \/ \E t \in Slots : openFileGotFile(t)
  \/ \E t \in Slots : openFileGotText(t)
  \/ CloseTabClick(TRUE)

SpecRecent == InitRecent /\ [][NextRecent]_vars

\* no path occurs twice in the list
NoPathTwice(list) ==
  \A i, j \in 1..Len(list) : i # j => list[i] # list[j]

\* C25: after any sequence of file opens the persisted recentFiles list has
\* at most 20 entries and contains no path twice, and its first entry is the
\* path of the most recently opened new tab: the open of a new tab puts its
\* path first and nothing else changes the list.
C25_RecentFilesBounded ==
  [][ /\ Len(recentFiles') <= 20
      /\ NoPathTwice(recentFiles')
      /\ IF Len(openTabs') > Len(openTabs)
         THEN recentFiles'[1] = openTabs'[Len(openTabs')].path
         ELSE recentFiles' = recentFiles
    ]_vars

\* b was opened with a full list: b is first and the oldest path, a, is gone
C25_Witness ==
  /\ last.op = "openFile"
  /\ last.result = "new"
  /\ last.id = NameB
  /\ Len(recentFiles) = 20
  /\ recentFiles[1] = NameB
  /\ recentFiles[20] = <<"w">>

\* a, the oldest of a full list, was opened: it moved to the front
C25_WitnessMoved ==
  /\ last.op = "openFile"
  /\ last.result = "new"
  /\ last.id = NameA
  /\ Len(recentFiles) = 20
  /\ recentFiles[1] = NameA
  /\ recentFiles[20] = <<"w">>

\* the tab object at index i is at index j after the step
SameTab(i, j) == openTabs[i].obj = openTabs'[j].obj

\* C26: when handlers run one after another, an edit changes the buffer and
\* sets the dirty flag of the active tab only; a switch of tabs changes no
\* tab's buffer or dirty flag and shows the buffer and flag stored with the
\* tab switched to; and no step but an edit of the active tab changes the
\* buffer of a tab or makes a tab dirty.
C26_EditsStayInTheirTab ==
  [][ /\ last'.op = "edit"
           => /\ Len(openTabs') = Len(openTabs)
              /\ \A i \in 1..Len(openTabs) :
                   openTabs[i].id # activeTabId => openTabs'[i] = openTabs[i]
              /\ \A i \in 1..Len(openTabs) :
                   (openTabs[i].id = activeTabId
                      /\ last'.result = "docChanged")
                     => openTabs'[i].state = view' /\ openTabs'[i].dirty
      /\ last'.op = "tabClick"
           => /\ openTabs' = openTabs
              /\ \E i \in 1..Len(openTabs) :
                   /\ openTabs[i].id = last'.id
                   /\ activeTabId' = openTabs[i].id
                   /\ view' = openTabs[i].state
                   /\ dirty' = openTabs[i].dirty
      /\ (openTabs' # openTabs /\ last'.op # "edit")
           => \A i \in 1..Len(openTabs), j \in 1..Len(openTabs') :
                SameTab(i, j)
                  => /\ openTabs'[j].state = openTabs[i].state
                     /\ openTabs'[j].dirty => openTabs[i].dirty
    ]_vars

\* a was edited, b was opened and edited, and the click on the tab of a has
\* brought back the text and the flag of a
C26_Witness ==
  /\ last.op = "tabClick"
  /\ Len(openTabs) = 2
  /\ openTabs[1].id = last.id
  /\ activeTabId = last.id
  /\ openTabs[1].dirty /\ openTabs[2].dirty
  /\ openTabs[1].state # openTabs[2].state
  /\ view = openTabs[1].state
  /\ dirty

\* ------------------------------------ the browse tree of a folder with rules
\* ignore files that exclude the file a, the folder d, and everything
BrowseTexts == { <<"a">>, <<"d", "/">>, <<"*">> }

InitBrowse ==
  /\ disk \in {InitDisk} \cup { DiskWithGitignore(t) : t \in BrowseTexts }
  /\ rootHandle = NullHandle
  /\ lastFolderHandle = NullHandle
  /\ editorSession = NoSession
  /\ recentFiles = << >>
  /\ entries = << >>
  /\ expanded = {}
  /\ renderedCurrent = NullHandle
  /\ gitignorePatterns = << >>
  /\ openTabs = << >>
  /\ activeTabId = NullStr
  /\ currentFileHandle = NullHandle
  /\ currentFileName = NoFileOpen
  /\ dirty = FALSE
  /\ view = << >>
  /\ tasks = [t \in Slots |-> IdleTask]
  /\ initPc = "restoreLastFolder"
  /\ steps = 0
  /\ hEdited = {}
  /\ hSynced = << >>
  /\ hIssued = NoRequest
  /\ last = Did("construct", NullStr, "constructed")

\* folders are opened, refreshed and expanded
NextBrowse ==
  /\ TreeBudget
  /\ \/ InitRestoreLastFolder
     \/ InitRestoreSession
     \/ openFolder(TRUE)
     \/ refreshClick(TRUE)
     \/ toggleFolder(TRUE)

SpecBrowse == InitBrowse /\ [][NextBrowse]_vars

\* a folder open, a restore or a refresh has read the root and returned
RootReadStep ==
  /\ rootHandle' # NullHandle
  /\ \/ last'.op = "openFolder" /\ last'.result = "opened"
     \/ last'.op = "restoreLastFolder" /\ last'.result = "restored"
     \/ last'.op = "refresh" /\ last'.result = "refreshed"

\* the names and kinds of a list of entries
NamesAndKinds(es) == { <<es[i].name, es[i].kind>> : i \in 1..Len(es) }

\* the listed entries the loaded rules exclude
IgnoredListed ==
  { i \in 1..Len(entries) :
      matchesGitignore(gitignorePatterns, entries[i].path,
                       entries[i].kind = "directory") }

\* C27: folder open and refresh enumerate the root's immediate children and
\* nothing deeper: the tree then lists every entry of the root, each once and
\* none with children read, the entries that the ignore rules exclude among
\* them; the children of a directory are read only by the step in which the
\* user expands it.
C27_OpenReadsRootLevelOnly ==
  [][ /\ RootReadStep
           => /\ NamesAndKinds(entries')
                   = { <<n, EntryAt(disk', Loc(rootHandle') \o <<n>>).kind>> :
                         n \in ChildNames(disk', rootHandle') }
              /\ Len(entries') = Cardinality(ChildNames(disk', rootHandle'))
              /\ AllUnloaded(entries')
              /\ expanded' = {}
      /\ \A i \in 1..Len(entries') :
           entries'[i].childrenLoaded
             => \/ i <= Len(entries) /\ entries[i] = entries'[i]
                \/ /\ ToggleStep
                   /\ last'.index = i
                   /\ last'.result = "loaded"
                   /\ entries[i].path \notin expanded
    ]_vars

\* a folder whose ignore file excludes its file a has been opened: a and the
\* folder d are listed and d has not been read
C27_Witness ==
  /\ last.op = "openFolder"
  /\ last.result = "opened"
  /\ gitignorePatterns # << >>
  /\ \E i \in IgnoredListed : entries[i].name = NameA
  /\ \E i \in 1..Len(entries) :
       entries[i].name = NameD /\ ~entries[i].childrenLoaded
  /\ Len(entries) = 4

\* the folder d has been expanded in a folder whose rules exclude it
C27_WitnessExpanded ==
  /\ last.op = "toggle"
  /\ last.result = "loaded"
  /\ last.index \in IgnoredListed
  /\ entries[last.index].childrenLoaded

\* C28: a click on a file entry of the browse tree whose path is not the
\* active tab's path always invokes open for that entry, whatever file was
\* current when the tree was last rendered and whatever other files share
\* the entry's basename.
C28_ClickOpensInactiveEntry ==
  \A e \in TreeFileItems : e.path # activeTabId => ClickOpens(e)

\* no call of openFile is under way
NoOpenPending == \A t \in Slots : tasks[t].op # "openFile"

\* C29: one tab per path also when opens overlap: once every openFile that
\* was started has completed, the tab list holds no two tabs with the same
\* id, also when a second openFile for a path was started while the first
\* was awaiting the read of the file.
C29_OverlappingOpensOneTab ==
  NoOpenPending
    => \A i, j \in 1..Len(openTabs) :
         openTabs[i].id = openTabs[j].id => i = j

\* a save has completed: its stream was closed and the tab marked clean
SavedStep == last'.op = "save" /\ last'.result = "saved"

\* C30: a save never changes the buffer of any tab, also when the user has
\* switched to another tab while it was pending: when the save completes
\* every tab holds the text it held before, and no tab's dirty flag changes
\* but that of the tab that was saved.
C30_SaveKeepsBuffers ==
  [][ SavedStep
        => /\ Len(openTabs') = Len(openTabs)
           /\ \A i \in 1..Len(openTabs) :
                /\ openTabs'[i].state = openTabs[i].state
                /\ openTabs'[i].dirty # openTabs[i].dirty
                     => openTabs[i].id = last'.id
    ]_vars

\* the handlers of Spec that end with a refresh of the tree
RefreshingOps == {"openFolder", "delete", "restoreLastFolder"}

\* C31: a read that fails leaves the editing state untouched: an openFile
\* whose getFile() or text() is rejected leaves the tab list, the active
\* tab, every buffer and dirty flag and the session record as they were, and
\* a handler whose refresh is rejected leaves the cached tree entries as
\* they were.
C31_FailedReadChangesNothing ==
  [][ /\ (last'.op = "openFile" /\ last'.result = "rejected")
           => UNCHANGED << openTabs, activeTabId, currentFileHandle,
                           currentFileName, dirty, view, editorSession >>
      /\ (last'.op \in RefreshingOps /\ last'.result = "rejected")
           => UNCHANGED << entries, expanded >>
    ]_vars

\* b was removed while its entry stayed in the tree, and the open of that
\* entry was rejected with a tab open
C31_Witness ==
  /\ last.op = "openFile"
  /\ last.result = "rejected"
  /\ last.id = NameB
  /\ disk[<<"r1", NameB>>].kind = "none"
  /\ \E i \in 1..Len(entries) : entries[i].name = NameB
  /\ Len(openTabs) = 1
  /\ activeTabId = openTabs[1].id

\* the refresh after a removal was rejected: the tree still lists the entry
C31_WitnessRefresh ==
  /\ last.op = "delete"
  /\ last.result = "rejected"
  /\ disk[<<"r1", NameB>>].kind = "none"
  /\ \E i \in 1..Len(entries) : entries[i].name = NameB

\* C32: in every reachable state the active tab id is null exactly when the
\* tab list is empty and is otherwise the id of a tab of the list, and the
\* current file handle is the active tab's handle, or null when no tab is
\* open.
C32_ActiveTabIsOpen ==
  /\ activeTabId = NullStr <=> Len(openTabs) = 0
  /\ Len(openTabs) = 0 => currentFileHandle = NullHandle
  /\ Len(openTabs) > 0
       => /\ getActiveTab(Editor) # 0
          /\ currentFileHandle = openTabs[getActiveTab(Editor)].handle

\* the active one of two tabs was closed and its left neighbour is current
C32_Witness ==
  /\ last.op = "closeTab"
  /\ last.result = "active"
  /\ Len(openTabs) = 1
  /\ activeTabId = openTabs[1].id
  /\ currentFileHandle = openTabs[1].handle

\* a tab other than the active one has been closed
CloseOtherStep == last'.op = "closeTab" /\ last'.result = "other"

\* C33: closing a tab that is not the active one removes that tab and leaves
\* the active tab id, the current handle, the visible buffer and its flag,
\* every remaining tab with its buffer and dirty flag, the order of the
\* remaining tabs and the session record as they were.
C33_CloseOtherKeepsRest ==
  [][ CloseOtherStep
        => /\ openTabs' = RemoveAt(openTabs, FindIndex(openTabs, last'.id))
           /\ last'.id # activeTabId
           /\ UNCHANGED << activeTabId, currentFileHandle, currentFileName,
                           dirty, view, editorSession >>
    ]_vars

\* with b edited and active, the tab of a to its left has been closed
C33_Witness ==
  /\ last.op = "closeTab"
  /\ last.result = "other"
  /\ last.id = NameA
  /\ Len(openTabs) = 1
  /\ openTabs[1].id = NameB
  /\ openTabs[1].dirty
  /\ activeTabId = NameB
  /\ view = openTabs[1].state
  /\ editorSession.currentFilePath = NameB

\* the openFile of slot t has completed with a tab activated
OpenCompleted(t) ==
  /\ tasks[t].op = "openFile"
  /\ tasks'[t].op = "idle"
  /\ last'.op = "openFile"
  /\ last'.result \in {"new", "existing"}

\* C34: after openFile(handle, path) has completed successfully the active
\* tab is bound to a handle for the very file that handle refers to, also
\* when another folder was opened while tabs of the previous folder were
\* open and the new folder holds a file with the same relative path.
C34_OpenBindsGivenHandle ==
  [][ \A t \in Slots :
        OpenCompleted(t)
          => /\ currentFileHandle' = tasks[t].handle
             /\ getActiveTab(Editor') # 0
             /\ openTabs'[getActiveTab(Editor')].handle = tasks[t].handle
    ]_vars

\* the openFile in slot t completes last: no openFile is pending after it,
\* no user action has followed the request issued last, and that request
\* is this one or has completed with its tab open
CompletesLast(t) ==
  /\ OpenCompleted(t)
  /\ \A u \in Slots : tasks'[u].op # "openFile"
  /\ hIssued.at = steps
  /\ t = hIssued.slot \/ hIssued.opened

\* C35: when open-file requests are issued one after another and their reads
\* complete in any order, then once all have completed the active tab and
\* the session's currentFilePath are those of the request issued last.
C35_LastRequestWins ==
  [][ \A t \in Slots :
        CompletesLast(t)
          => /\ activeTabId' = hIssued.path
             /\ editorSession'.currentFilePath = hIssued.path
    ]_vars

\* an enumeration settles with its entries and leaves nothing pending
SettledIdle ==
  /\ \E t \in Slots : tasks[t].op = "refresh" /\ tasks'[t].op = "idle"
  /\ last'.op = "refresh"
  /\ last'.result = "refreshed"
  /\ \A t \in Slots : tasks'[t].op = "idle"

\* C36: whenever no operation is pending, the cached top-level entries are a
\* snapshot of the immediate children of the current root handle, also when
\* refreshes and folder opens overlapped and their enumerations completed
\* out of order.
C36_EntriesOfCurrentRoot ==
  [][ SettledIdle
        => (rootHandle' # NullHandle
              /\ entries' = readDirectoryLevel(disk', rootHandle', << >>))
    ]_vars

\* ------------------------------------------- expansions that take time
\* the names of the items of a list of entries, in order
ItemNames(items) == [j \in 1..Len(items) |-> items[j].name]

\* the items in folderElement's .tree-children after the toggle of the folder
\* at path has appended names: those appended by the toggle of the same
\* element that settled just before, when innerHTML was not cleared since
RenderedChildren(path, names) ==
  IF last.op = "toggle" /\ last.id = path /\ last.result = "loaded"
  THEN last.rendered \o names
  ELSE names

\* FileTree.toggleFolder up to its await of readDirectoryLevel(entry.handle,
\* entry.path); a folder that is expanded or loaded is toggled at once
toggleCall ==
  /\ MayStart(FALSE)
  /\ steps' = steps + 1
  /\ \E i \in 1..Len(entries) :
       LET entry == entries[i]
       IN /\ entry.kind = "directory"
          /\ IF entry.path \in expanded
             THEN /\ expanded' = expanded \ {entry.path}
                  /\ last' = [op |-> "toggle", id |-> entry.path,
                              result |-> "collapsed", index |-> i,
                              enumerated |-> FALSE, rendered |-> << >>]
                  /\ UNCHANGED tasks
             ELSE IF toggleLoads(entry)
             THEN /\ tasks' = [tasks EXCEPT ![FreeSlot] =
                                 [IdleTask EXCEPT
                                    !.op = "toggle",
                                    !.pc = "readDirectoryLevel",
                                    !.origin = "user",
                                    !.handle = entry.handle,
                                    !.path = entry.path,
                                    !.obj = i]]
                  /\ last' = [op |-> "toggle", id |-> entry.path,
                              result |-> "called", index |-> i,
                              enumerated |-> FALSE, rendered |-> << >>]
                  /\ UNCHANGED expanded
             ELSE /\ expanded' = expanded \cup {entry.path}
                  /\ last' = [op |-> "toggle", id |-> entry.path,
                              result |-> "expanded", index |-> i,
                              enumerated |-> FALSE, rendered |-> << >>]
                  /\ UNCHANGED tasks
  /\ UNCHANGED << disk, rootHandle, storageVars, entries, renderedCurrent,
                  gitignorePatterns, editorVars, initPc, hEdited, hSynced,
                  hIssued >>

\* the enumeration of toggleFolder settles: the children are stored in the
\* entry, an item for each is appended, and the folder is shown expanded
toggleSettled(t) ==
  /\ UNCHANGED steps
  /\ tasks[t].op = "toggle"
  /\ \E ok \in BOOLEAN, i \in {tasks[t].obj} :
       /\ ok => CanEnumerate(disk, tasks[t].handle)
       /\ IF ok
          THEN \E childEntries \in {readDirectoryLevel(disk, tasks[t].handle,
                                                       tasks[t].path)} :
                 /\ entries' = [entries EXCEPT
                                  ![i].children = ChildList(childEntries),
                                  ![i].childrenLoaded = TRUE]
                 /\ expanded' = expanded \cup {tasks[t].path}
                 /\ last' = [op |-> "toggle", id |-> tasks[t].path,
                             result |-> "loaded", index |-> i,
                             enumerated |-> TRUE,
                             rendered |-> RenderedChildren(
                                            tasks[t].path,
                                            ItemNames(childEntries))]
          ELSE /\ last' = [op |-> "toggle", id |-> tasks[t].path,
                           result |-> "rejected", index |-> i,
                           enumerated |-> TRUE, rendered |-> << >>]
               /\ UNCHANGED << entries, expanded >>
  /\ tasks' = [tasks EXCEPT ![t] = IdleTask]
  /\ UNCHANGED << disk, rootHandle, storageVars, renderedCurrent,
                  gitignorePatterns, editorVars, initPc, hEdited, hSynced,
                  hIssued >>

\* folders are toggled while their expansion is under way; a folder is opened
\* between expansions
NextToggle ==
  \/ InitRestoreLastFolder
  \/ InitRestoreSession
  \/ AllIdle /\ openFolder(FALSE)
  \/ toggleCall
  \/ \E t \in Slots : toggleSettled(t)

SpecToggle == Init /\ [][NextToggle]_vars

\* no element of the sequence occurs in it twice
EachOnce(s) == \A j, k \in 1..Len(s) : s[j] = s[k] => j = k

\* the expansions of the folder at path whose enumeration is pending
Expanding(ts, path) ==
  { t \in Slots : ts[t].op = "toggle" /\ ts[t].path = path }

\* C37: when a directory entry is toggled a second time while its first
\* expansion is still awaiting the directory read, the directory is
\* enumerated only once and, after both toggles complete, each child appears
\* exactly once in the rendered children and in the entry's children list.
C37_SecondToggleReadsNothing ==
  [][ /\ \A i \in 1..Len(entries') :
           Cardinality(Expanding(tasks', entries'[i].path)) <= 1
      /\ (last'.op = "toggle" /\ last'.result = "loaded" /\ last' # last)
           => /\ EachOnce(last'.rendered)
              /\ EachOnce(ItemNames(
                            entries'[last'.index].children.items))
    ]_vars

\* the second half of C37 alone: the rendered children after the expansions
C37_ChildrenRenderedOnce ==
  [][ (last'.op = "toggle" /\ last'.result = "loaded" /\ last' # last)
        => EachOnce(last'.rendered) ]_vars

\* ------------------------------------------- a handle store that can fail
\* folders are opened when persisting the granted handle may throw
NextOpen ==
  /\ TreeBudget
  /\ \/ InitRestoreLastFolder
     \/ InitRestoreSession
     \/ openFolderStoring(TRUE, BOOLEAN)
     \/ refreshClick(TRUE)
     \/ toggleFolder(TRUE)

SpecOpen == Init /\ [][NextOpen]_vars

\* openFolder has run and openDirectory returned null to it
OpenReturnedNull ==
  /\ steps' # steps
  /\ last'.op = "openFolder"
  /\ last'.result \in {"cancelled", "failed"}

\* C38: whenever openDirectory returns null, for any reason including a
\* failure while persisting the granted handle, the root handle is the same
\* as before the call.
C38_NullLeavesRoot ==
  [][ OpenReturnedNull => rootHandle' = rootHandle ]_vars

\* ------------------------------------------- tree entries of open files
\* files are opened and edited, and their tree entries deleted and renamed
NextKeep ==
  /\ TreeBudget
  /\ \/ InitRestoreLastFolder
     \/ InitRestoreSession
     \/ openFolder(TRUE)
     \/ QuickOpenFile(TRUE)
     \/ \E t \in Slots : openFileGotFile(t)
     \/ \E t \in Slots : openFileGotText(t)
     \/ Edit(TRUE)
     \/ treeDeleteEntry(TRUE)
     \/ treeRenameEntry(TRUE)

SpecKeep == Init /\ [][NextKeep]_vars

\* deleteEntry or renameEntry of the tree has run
TreeEntryStep == steps' # steps /\ last'.op \in {"delete", "rename"}

\* C39: deleting or renaming a tree entry never changes the set of open tabs,
\* their ids, paths, handles, buffers or dirty flags, nor the session record:
\* a tab whose file was deleted or renamed stays open, bound to the old
\* handle and the old path.
C39_TreeEditsKeepTabs ==
  [][ TreeEntryStep
        => /\ openTabs' = openTabs
           /\ activeTabId' = activeTabId
           /\ currentFileHandle' = currentFileHandle
           /\ dirty' = dirty
           /\ view' = view
           /\ editorSession' = editorSession
    ]_vars

\* the file of an open tab has been deleted and the tab is still there
C39_Witness ==
  /\ last.op = "delete"
  /\ last.result = "removed"
  /\ \E i \in 1..Len(openTabs) :
       /\ openTabs[i].id = last.id
       /\ EntryAt(disk, Loc(openTabs[i].handle)).kind = "none"

\* the file of an open tab with unsaved edits has been renamed
C39_WitnessRenamed ==
  /\ last.op = "rename"
  /\ last.result = "renamed"
  /\ dirty
  /\ \E i \in 1..Len(openTabs) :
       /\ openTabs[i].id = last.id
       /\ openTabs[i].id = activeTabId
       /\ EntryAt(disk, Loc(openTabs[i].handle)).kind = "none"

\* C40: renameEntry changes no entry other than the renamed one: an entry
\* that already has the new name in the same parent has the same content
\* after the rename attempt as before, and a rename whose new name is empty,
\* cancelled or equal to the current name performs no filesystem operation.
C40_RenameSparesOthers ==
  [][ (steps' # steps /\ last'.op = "rename")
        => IF last'.result = "declined" THEN disk' = disk
           ELSE LET new == Loc(last'.entry.parentHandle)
                             \o <<last'.newName>>
                IN disk[new].kind # "none" => Intact(disk, disk', new)
    ]_vars

\* the second half of C40 alone: a declined rename leaves the file system
C40_DeclinedTouchesNothing ==
  [][ (steps' # steps /\ last'.op = "rename" /\ last'.result = "declined")
        => disk' = disk ]_vars

====
